---- MODULE Spec2Model ----
(***************************************************************************)
(* TourismCam (cultural-touristic-web-app): the mock auth API routes, the  *)
(* in-memory mock data stores and the client-side auth store, as state     *)
(* machines.                                                               *)
(*                                                                         *)
(* Strings the code inspects (regex tests, prefixes, trim, length) are     *)
(* sequences of one-character strings; strings the code only passes along  *)
(* (messages) are TLA+ strings.  A missing (undefined / null) field and    *)
(* the empty string are both the empty sequence: every test the routes     *)
(* apply to them (!x, x && ...) treats the two alike.                      *)
(***************************************************************************)
EXTENDS Integers, Sequences, FiniteSets, Bags, TLC

VARIABLES
    apiReq,         \* the last request a mock API route handled
    apiResp,        \* the response the route gave to it
    dbUsers,        \* lib/database: const users: User[]
    dbPosts,        \* lib/database: const posts: Post[]
    dbComments,     \* lib/database: const comments: Comment[]
    dbLikes,        \* lib/database: let likes: Like[]
    dbSavedPosts,   \* lib/database: let savedPosts: SavedPost[]
    currentUserId,  \* lib/database: let currentUserId
    dbLast,         \* the last data-store call: its arguments, what it saw, its result
    dbOps,          \* number of data-store calls made so far
    dbOrphanLike,   \* some toggleLike call named a post that did not exist
    stPosts,        \* lib/store: const posts: Post[]
    stSavedPosts,   \* lib/store: const savedPosts: number[]
    stCurrentUser,  \* lib/store: let currentUser (its username)
    auth,           \* useAuthStore: user, token, sessionId, isAuthenticated, isLoading, error
    authStorage,    \* localStorage['auth-storage']: what persist wrote last
    cookies,        \* js-cookie: auth_token and session_id
    location,       \* window.location.pathname
    calls,          \* store actions suspended at an await, with the request each waits for
    authLast,       \* the step the auth store took last, and what the action returned
    svcLast,        \* the service call made last: its arguments, the response, the result
    ps,             \* usePostsStore: the state fields
    psStorage,      \* localStorage['posts-store']: what persist wrote last
    psCalls,        \* posts-store actions suspended at an await
    psOps,          \* number of posts-store actions started so far
    psApplied,      \* per list, the issue number of the call whose response wrote it last
    psLast,         \* the step the posts store took last
    gate,           \* middleware: the last request it was asked about and its answer
    nav             \* the browser: the page it shows and the navigation under way

apiVars == <<apiReq, apiResp>>

dbVars == <<dbUsers, dbPosts, dbComments, dbLikes, dbSavedPosts, currentUserId,
            dbLast, dbOps, dbOrphanLike>>

stVars == <<stPosts, stSavedPosts, stCurrentUser>>

authVars == <<auth, authStorage, cookies, location, calls, authLast>>

svcVars == <<svcLast>>

psVars == <<ps, psStorage, psCalls, psOps, psApplied, psLast>>

navVars == <<gate, nav>>

vars == <<apiVars, dbVars, stVars, authVars, svcVars, psVars, navVars>>

(***************************************************************************)
(* String helpers (JavaScript semantics of the methods the routes call).   *)
(***************************************************************************)

\* \s of a JavaScript regular expression, as far as the inputs go.
WhiteSpace == {" ", "\t"}

IsSpace(c) == c \in WhiteSpace

Digits == {"0", "1", "2", "3", "4", "5", "6", "7", "8", "9"}

\* String.prototype.startsWith
StartsWith(s, prefix) ==
    /\ Len(s) >= Len(prefix)
    /\ SubSeq(s, 1, Len(prefix)) = prefix

\* String.prototype.substring(n): the characters from index n (0-based) on.
Substring(s, n) == IF n >= Len(s) THEN <<>> ELSE SubSeq(s, n + 1, Len(s))

RECURSIVE TrimStart(_)
TrimStart(s) ==
    IF s = <<>> THEN s
    ELSE IF IsSpace(Head(s)) THEN TrimStart(Tail(s)) ELSE s

RECURSIVE TrimEnd(_)
TrimEnd(s) ==
    IF s = <<>> THEN s
    ELSE IF IsSpace(s[Len(s)]) THEN TrimEnd(SubSeq(s, 1, Len(s) - 1)) ELSE s

\* String.prototype.trim
Trim(s) == TrimEnd(TrimStart(s))

\* /\S+@\S+\.\S+/.test(s): unanchored; some "@" at i with a non-space before
\* it, some "." at k >= i + 2 with only non-spaces between, a non-space after.
EmailRegexTest(s) ==
    \E i \in 1..Len(s), k \in 1..Len(s) :
        /\ i >= 2
        /\ ~IsSpace(s[i - 1])
        /\ s[i] = "@"
        /\ k >= i + 2
        /\ \A j \in (i + 1)..(k - 1) : ~IsSpace(s[j])
        /\ s[k] = "."
        /\ k + 1 <= Len(s)
        /\ ~IsSpace(s[k + 1])

PhoneChars == Digits \cup WhiteSpace \cup {"-", "(", ")"}

\* /^\+?[\d\s\-\(\)]+$/.test(s)
PhoneRegexTest(s) ==
    LET rest == IF s # <<>> /\ Head(s) = "+" THEN Tail(s) ELSE s
    IN  /\ Len(rest) >= 1
        /\ \A j \in 1..Len(rest) : rest[j] \in PhoneChars

(***************************************************************************)
(* String constants of the routes.                                         *)
(***************************************************************************)

DemoEmail == <<"d", "e", "m", "o", "@", "e", "x", "a", "m", "p", "l", "e", ".", "c", "o", "m">>
DemoPassword == <<"p", "a", "s", "s", "w", "o", "r", "d", "1", "2", "3">>
ExistingEmail == <<"e", "x", "i", "s", "t", "i", "n", "g", "@", "e", "x", "a", "m", "p", "l", "e", ".", "c", "o", "m">>
MockTokenPrefix == <<"m", "o", "c", "k", "_", "j", "w", "t", "_", "t", "o", "k", "e", "n", "_">>
SessionPrefix == <<"s", "e", "s", "s", "i", "o", "n", "_">>
UserIdPrefix == <<"u", "s", "e", "r", "_">>
BearerPrefix == <<"B", "e", "a", "r", "e", "r", " ">>

\* 'Bearer '.length, the argument of authHeader.substring(7)
BearerLen == 7

MinPasswordLen == 6

MinNameLen == 2

\* The user every successful mock login / me request returns.
MockUser ==
    [id |-> "user_123", email |-> DemoEmail, name |-> "Demo User",
     phone |-> "+1234567890", role |-> "user"]

(***************************************************************************)
(* Inputs of the routes.                                                   *)
(***************************************************************************)

\* Date.now(), printed in decimal.
ClockValues == {<<"1">>, <<"1", "7", "0">>}

EmailInputs ==
    { <<>>,
      DemoEmail,
      ExistingEmail,
      <<"n", "e", "w", "@", "s", "i", "t", "e", ".", "o", "r", "g">>,
      <<"n", "o", "-", "a", "t", "-", "s", "i", "g", "n", ".", "o", "r", "g">>,
      <<"a", " ", "@", "b", ".", "c">>,
      <<"x", "@", "y">> }

PasswordInputs ==
    { <<>>,
      DemoPassword,
      <<"s", "e", "c", "r", "e", "t">>,
      <<"1", "2", "3", "4", "5">>,
      <<"w", "r", "o", "n", "g", "p", "a", "s", "s", "1">> }

NameInputs ==
    { <<>>,
      <<"A", "l">>,
      <<" ", "A">>,
      <<"A">>,
      <<"B", " ", " ">>,
      <<" ", "T", "e", "s", "t", " ", "U", "s", "e", "r", " ">> }

PhoneInputs ==
    { <<>>,
      <<"+", "1", "2", "3", "4", "5", "6", "7", "8", "9", "0">>,
      <<"(", "1", ")", " ", "2">>,
      <<"c", "a", "l", "l", " ", "m", "e">>,
      <<"+">> }

\* The Authorization header; <<>> is a request without one.
HeaderInputs ==
    { <<>>,
      <<"B", "a", "s", "i", "c", " ", "a", "b", "c", "1", "2", "3">>,
      <<"b", "e", "a", "r", "e", "r", " ", "m", "o", "c", "k", "_", "j", "w", "t", "_", "t", "o", "k", "e", "n", "_", "1">>,
      <<"B", "e", "a", "r", "e", "r">>,
      BearerPrefix,
      <<"m", "o", "c", "k", "_", "j", "w", "t", "_", "t", "o", "k", "e", "n", "_", "1">>,
      BearerPrefix \o MockTokenPrefix \o <<"1">>,
      BearerPrefix \o MockTokenPrefix,
      <<"B", "e", "a", "r", "e", "r", " ", "x", "y", "z">> }

(***************************************************************************)
(* POST /api/auth/register                                                 *)
(***************************************************************************)

ErrorResponse(status, msg) == [status |-> status, body |-> [error |-> msg]]

\* A registration that also returns the submitted password in the user object.
RegisterPOST_LeaksPassword(parseOk, email, password, name, phone, now) ==
    IF parseOk /\ email # <<>> /\ password # <<>> /\ name # <<>>
       /\ EmailRegexTest(email) /\ Len(password) >= MinPasswordLen
       /\ Len(Trim(name)) >= MinNameLen
       /\ (phone = <<>> \/ PhoneRegexTest(phone)) /\ email # ExistingEmail
    THEN [status |-> 201,
          body |-> [message |-> "User registered successfully. Please verify your email.",
                    user |-> [id |-> UserIdPrefix \o now, email |-> email,
                              name |-> Trim(name), password |-> password]]]
    ELSE ErrorResponse(400, "rejected")

RegisterPOST(parseOk, email, password, name, phone, now) ==
    IF ~parseOk
    THEN ErrorResponse(500, "An error occurred during registration")
    ELSE IF email = <<>> \/ password = <<>> \/ name = <<>>
    THEN ErrorResponse(400, "Email, password, and name are required")
    ELSE IF ~EmailRegexTest(email)
    THEN ErrorResponse(400, "Please enter a valid email address")
    ELSE IF Len(password) < MinPasswordLen
    THEN ErrorResponse(400, "Password must be at least 6 characters long")
    ELSE IF Len(Trim(name)) < MinNameLen
    THEN ErrorResponse(400, "Name must be at least 2 characters long")
    ELSE IF phone # <<>> /\ ~PhoneRegexTest(phone)
    THEN ErrorResponse(400, "Please enter a valid phone number")
    ELSE IF email = ExistingEmail
    THEN ErrorResponse(409, "An account with this email already exists")
    ELSE [status |-> 201,
          body |-> [message |-> "User registered successfully. Please verify your email.",
                    user |-> [id |-> UserIdPrefix \o now, email |-> email,
                              name |-> Trim(name)]]]

(***************************************************************************)
(* POST /api/auth/login                                                    *)
(***************************************************************************)

\* A login that checks the email alone.
LoginPOST_IgnoresPassword(parseOk, email, password, now) ==
    IF parseOk /\ email = DemoEmail /\ password # <<>>
    THEN [status |-> 200,
          body |-> [message |-> "Login successful", user |-> MockUser,
                    token |-> MockTokenPrefix \o now,
                    sessionId |-> SessionPrefix \o now]]
    ELSE ErrorResponse(401, "Invalid email or password")

LoginPOST(parseOk, email, password, now) ==
    IF ~parseOk
    THEN ErrorResponse(500, "An error occurred during login")
    ELSE IF email = <<>> \/ password = <<>>
    THEN ErrorResponse(400, "Email and password are required")
    ELSE IF ~EmailRegexTest(email)
    THEN ErrorResponse(400, "Please enter a valid email address")
    ELSE IF email = DemoEmail /\ password = DemoPassword
    THEN [status |-> 200,
          body |-> [message |-> "Login successful", user |-> MockUser,
                    token |-> MockTokenPrefix \o now,
                    sessionId |-> SessionPrefix \o now]]
    ELSE ErrorResponse(401, "Invalid email or password")

(***************************************************************************)
(* GET /api/auth/me                                                        *)
(***************************************************************************)

\* An extractToken that does not look for the 'Bearer ' scheme.
ExtractToken_NoSchemeCheck(authHeader) == Substring(authHeader, BearerLen)

\* extractToken: <<>> is null.  An empty token after 'Bearer ' is falsy in
\* the caller's !token, like null.
ExtractToken(authHeader) ==
    IF authHeader = <<>> \/ ~StartsWith(authHeader, BearerPrefix)
    THEN <<>>
    ELSE Substring(authHeader, BearerLen)

MeGET(authHeader) ==
    LET token == ExtractToken(authHeader)
    IN  IF token = <<>>
        THEN ErrorResponse(401, "Authorization token is required")
        ELSE IF ~StartsWith(token, MockTokenPrefix)
        THEN ErrorResponse(401, "Invalid or expired token")
        ELSE [status |-> 200, body |-> [user |-> MockUser]]

(***************************************************************************)
(* The routes as a state machine.  The routes keep no state between        *)
(* requests: a request arrives, the handler computes its response, and the *)
(* response is sent.                                                       *)
(***************************************************************************)

ApiIdle == apiReq.route = "none"

InitApi ==
    /\ apiReq = [route |-> "none"]
    /\ apiResp = [status |-> 0, body |-> [error |-> "none"]]

Register ==
    \E parseOk \in BOOLEAN, email \in EmailInputs, password \in PasswordInputs,
       name \in NameInputs, phone \in PhoneInputs, now \in ClockValues :
        /\ ApiIdle
        /\ apiReq' = [route |-> "register", parseOk |-> parseOk, email |-> email,
                      password |-> password, name |-> name, phone |-> phone]
        /\ apiResp' = RegisterPOST(parseOk, email, password, name, phone, now)
        /\ UNCHANGED <<dbVars, stVars, authVars, svcVars, psVars, navVars>>

Login ==
    \E parseOk \in BOOLEAN, email \in EmailInputs, password \in PasswordInputs,
       now \in ClockValues :
        /\ ApiIdle
        /\ apiReq' = [route |-> "login", parseOk |-> parseOk, email |-> email,
                      password |-> password]
        /\ apiResp' = LoginPOST(parseOk, email, password, now)
        /\ UNCHANGED <<dbVars, stVars, authVars, svcVars, psVars, navVars>>

Me ==
    \E authHeader \in HeaderInputs :
        /\ ApiIdle
        /\ apiReq' = [route |-> "me", authorization |-> authHeader]
        /\ apiResp' = MeGET(authHeader)
        /\ UNCHANGED <<dbVars, stVars, authVars, svcVars, psVars, navVars>>

\* The response has been sent; the route is ready for the next request.
ResponseSent ==
    /\ ~ApiIdle
    /\ apiReq' = [route |-> "none"]
    /\ apiResp' = [status |-> 0, body |-> [error |-> "none"]]
    /\ UNCHANGED <<dbVars, stVars, authVars, svcVars, psVars, navVars>>

NextApi == Register \/ Login \/ Me \/ ResponseSent

(***************************************************************************)
(* The mock database (lib/database): module-level arrays and the query     *)
(* functions that mutate them.  Ids are the decimal strings of naturals    *)
(* ((n + 1).toString(), an injection), kept here as the naturals.          *)
(***************************************************************************)

\* posts[0].likes_count of the seeded post
SeedLikesCount == 234

\* posts[0].comments_count of the seeded post
SeedCommentsCount == 2

\* posts[0].views_count of the seeded post
SeedViewsCount == 1250

\* Longest run of data-store calls explored.
MaxOps == 5

MaxPosts == 3

MaxComments == 3

MaxUsers == 3

InitDb ==
    /\ dbUsers = << [id |-> 1, username |-> "current_user", post_count |-> 0],
                    [id |-> 2, username |-> "traveler_jane", post_count |-> 1] >>
    /\ dbPosts = << [id |-> 1, user_id |-> 2,
                     caption |-> "Amazing sunset at Mount Cameroon!",
                     location |-> "Mount Cameroon, Cameroon",
                     likes_count |-> SeedLikesCount,
                     comments_count |-> SeedCommentsCount,
                     views_count |-> SeedViewsCount,
                     is_deleted |-> FALSE] >>
    /\ dbComments = << [id |-> 1, post_id |-> 1, user_id |-> 1,
                        text |-> "Absolutely stunning view!",
                        is_deleted |-> FALSE] >>
    /\ dbLikes = <<>>
    /\ dbSavedPosts = <<>>
    /\ currentUserId = 1
    /\ dbLast = [op |-> "none"]
    /\ dbOps = 0
    /\ dbOrphanLike = FALSE
    /\ stPosts = << [id |-> 1, likes |-> 234,
                     comments |-> << [id |-> 1, username |-> "adventure_mike"],
                                     [id |-> 2, username |-> "photo_lover"] >>],
                    [id |-> 2, likes |-> 189,
                     comments |-> << [id |-> 3, username |-> "beach_walker"] >>] >>
    /\ stSavedPosts = <<>>
    /\ stCurrentUser = "current_user"

\* Array.prototype.findIndex, 1-based; 0 when no element passes.
FindIndex(arr, Test(_)) ==
    IF \E i \in 1..Len(arr) : Test(arr[i])
    THEN CHOOSE i \in 1..Len(arr) :
            Test(arr[i]) /\ \A j \in 1..(i - 1) : ~Test(arr[j])
    ELSE 0

\* likes.some(like => like.post_id === postId && like.user_id === userId)
HasJoin(joins, postId, userId) ==
    \E i \in 1..Len(joins) :
        joins[i].post_id = postId /\ joins[i].user_id = userId

\* posts.find(p => p.id === postId), then post.likes_count += delta
BumpLikes(posts, postId, delta) ==
    LET k == FindIndex(posts, LAMBDA p : p.id = postId)
    IN  IF k = 0 THEN posts
        ELSE [posts EXCEPT ![k].likes_count = @ + delta]

\* getUserById
GetUserById(id) == FindIndex(dbUsers, LAMBDA u : u.id = id)

\* A toggleLike whose lookup has its two arguments the wrong way round.
ToggleLikeFn_SwappedLookup(likes, posts, postId, userId) ==
    LET e == FindIndex(likes, LAMBDA l : l.post_id = userId /\ l.user_id = postId)
    IN  IF e # 0
        THEN [likes  |-> SelectSeq(likes, LAMBDA l : l.id # likes[e].id),
              posts  |-> BumpLikes(posts, postId, -1),
              result |-> FALSE]
        ELSE [likes  |-> Append(likes, [id |-> Len(likes) + 1,
                                        post_id |-> postId, user_id |-> userId]),
              posts  |-> BumpLikes(posts, postId, 1),
              result |-> TRUE]

\* A toggleLike that forgets the counter when it removes the like.
ToggleLikeFn_NoDecrement(likes, posts, postId, userId) ==
    LET e == FindIndex(likes, LAMBDA l : l.post_id = postId /\ l.user_id = userId)
    IN  IF e # 0
        THEN [likes  |-> SelectSeq(likes, LAMBDA l : l.id # likes[e].id),
              posts  |-> posts,
              result |-> FALSE]
        ELSE [likes  |-> Append(likes, [id |-> Len(likes) + 1,
                                        post_id |-> postId, user_id |-> userId]),
              posts  |-> BumpLikes(posts, postId, 1),
              result |-> TRUE]

\* toggleLike(postId, userId): the new likes, the new posts, the value returned.
ToggleLikeFn(likes, posts, postId, userId) ==
    LET e == FindIndex(likes, LAMBDA l : l.post_id = postId /\ l.user_id = userId)
    IN  IF e # 0
        THEN [likes  |-> SelectSeq(likes, LAMBDA l : l.id # likes[e].id),
              posts  |-> BumpLikes(posts, postId, -1),
              result |-> FALSE]
        ELSE [likes  |-> Append(likes, [id |-> Len(likes) + 1,
                                        post_id |-> postId, user_id |-> userId]),
              posts  |-> BumpLikes(posts, postId, 1),
              result |-> TRUE]

\* toggleSavedPost(postId, userId): the new savedPosts and the value returned.
ToggleSavedPostFn(saves, postId, userId) ==
    LET e == FindIndex(saves, LAMBDA v : v.post_id = postId /\ v.user_id = userId)
    IN  IF e # 0
        THEN [saves  |-> SelectSeq(saves, LAMBDA v : v.id # saves[e].id),
              result |-> FALSE]
        ELSE [saves  |-> Append(saves, [id |-> Len(saves) + 1,
                                        post_id |-> postId, user_id |-> userId]),
              result |-> TRUE]

\* likes_count of the post with this id; -1 when there is none.
LikesCountOf(posts, postId) ==
    LET k == FindIndex(posts, LAMBDA p : p.id = postId)
    IN  IF k = 0 THEN -1 ELSE posts[k].likes_count

\* getPostById(id) on the given arrays: null, a rejected promise (the
\* TypeError of user!.id on a missing user), or the post with its details.
GetPostByIdFn(posts, comments, id) ==
    LET k == FindIndex(posts, LAMBDA p : p.id = id /\ ~p.is_deleted)
    IN  IF k = 0 THEN [kind |-> "null"]
        ELSE
          LET post == posts[k]
              postComments ==
                  SelectSeq(comments,
                            LAMBDA c : c.post_id = post.id /\ ~c.is_deleted)
          IN  IF \/ GetUserById(post.user_id) = 0
                 \/ \E i \in 1..Len(postComments) :
                        GetUserById(postComments[i].user_id) = 0
              THEN [kind |-> "throws"]
              ELSE [kind |-> "post",
                    post |-> post,
                    user |-> dbUsers[GetUserById(post.user_id)].username,
                    is_liked_by_current_user |->
                        HasJoin(dbLikes, post.id, currentUserId),
                    is_saved_by_current_user |->
                        HasJoin(dbSavedPosts, post.id, currentUserId),
                    recent_comments |->
                        [i \in 1..Len(postComments) |->
                            [id |-> postComments[i].id,
                             text |-> postComments[i].text,
                             username |->
                                 dbUsers[GetUserById(postComments[i].user_id)].username]]]

GetPostById(id) == GetPostByIdFn(dbPosts, dbComments, id)

LikePostInputs == {1, 2}

LikeUserInputs == {1, 2}

SavePostInputs == {1}

CurrentUserInputs == {2}

PostDataInputs ==
    { [user_id |-> 1, caption |-> "Kribi beach at dawn", location |-> "Kribi"],
      [user_id |-> 3, caption |-> "", location |-> ""] }

CommentDataInputs ==
    { [post_id |-> 1, user_id |-> 1, text |-> "nice"],
      [post_id |-> 2, user_id |-> 3, text |-> ""] }

DbCall == dbOps < MaxOps /\ dbOps' = dbOps + 1

ToggleLike ==
    \E postId \in LikePostInputs, userId \in LikeUserInputs :
        LET r == ToggleLikeFn(dbLikes, dbPosts, postId, userId)
        IN  /\ DbCall
            /\ dbLikes' = r.likes
            /\ dbPosts' = r.posts
            /\ dbLast' =
                 LET again == /\ dbLast.op = "toggleLike"
                              /\ dbLast.postId = postId
                              /\ dbLast.userId = userId
                              /\ ~dbLast.second
                 IN  [op |-> "toggleLike", postId |-> postId, userId |-> userId,
                      result |-> r.result,
                      \* this call repeats the call before it; then the three
                      \* fields below are what that first call saw and returned
                      second |-> again,
                      firstResult |-> IF again THEN dbLast.result ELSE r.result,
                      likedBefore |->
                          IF again THEN dbLast.likedBefore
                          ELSE HasJoin(dbLikes, postId, userId),
                      countBefore |->
                          IF again THEN dbLast.countBefore
                          ELSE LikesCountOf(dbPosts, postId)]
            /\ dbOrphanLike' = (dbOrphanLike \/ LikesCountOf(dbPosts, postId) = -1)
            /\ UNCHANGED <<dbUsers, dbComments, dbSavedPosts, currentUserId>>
            /\ UNCHANGED <<apiVars, stVars, authVars, svcVars, psVars, navVars>>

ToggleSavedPost ==
    \E postId \in SavePostInputs, userId \in LikeUserInputs :
        LET r == ToggleSavedPostFn(dbSavedPosts, postId, userId)
        IN  /\ DbCall
            /\ dbSavedPosts' = r.saves
            /\ dbLast' = [op |-> "toggleSavedPost", postId |-> postId,
                          userId |-> userId, result |-> r.result]
            /\ UNCHANGED <<dbUsers, dbPosts, dbComments, dbLikes, currentUserId,
                           dbOrphanLike>>
            /\ UNCHANGED <<apiVars, stVars, authVars, svcVars, psVars, navVars>>

\* createPost(postData)
CreatePost ==
    \E postData \in PostDataInputs :
        LET newPost == [id |-> Len(dbPosts) + 1,
                        user_id |-> postData.user_id,
                        caption |-> postData.caption,
                        location |-> postData.location,
                        likes_count |-> 0,
                        comments_count |-> 0,
                        views_count |-> 0,
                        is_deleted |-> FALSE]
            u == FindIndex(dbUsers, LAMBDA x : x.id = postData.user_id)
        IN  /\ DbCall
            /\ Len(dbPosts) < MaxPosts
            /\ dbPosts' = Append(dbPosts, newPost)
            /\ dbUsers' = IF u = 0 THEN dbUsers
                          ELSE [dbUsers EXCEPT ![u].post_count = @ + 1]
            /\ dbLast' = [op |-> "createPost", postData |-> postData,
                          result |-> newPost,
                          idsBefore |-> {dbPosts[i].id : i \in 1..Len(dbPosts)}]
            /\ UNCHANGED <<dbComments, dbLikes, dbSavedPosts, currentUserId,
                           dbOrphanLike>>
            /\ UNCHANGED <<apiVars, stVars, authVars, svcVars, psVars, navVars>>

\* createComment(commentData)
CreateComment ==
    \E commentData \in CommentDataInputs :
        LET newComment == [id |-> Len(dbComments) + 1,
                           post_id |-> commentData.post_id,
                           user_id |-> commentData.user_id,
                           text |-> commentData.text,
                           is_deleted |-> FALSE]
            k == FindIndex(dbPosts, LAMBDA p : p.id = commentData.post_id)
        IN  /\ DbCall
            /\ Len(dbComments) < MaxComments
            /\ dbComments' = Append(dbComments, newComment)
            /\ dbPosts' = IF k = 0 THEN dbPosts
                          ELSE [dbPosts EXCEPT ![k].comments_count = @ + 1]
            /\ dbLast' = [op |-> "createComment", commentData |-> commentData,
                          result |-> newComment]
            /\ UNCHANGED <<dbUsers, dbLikes, dbSavedPosts, currentUserId,
                           dbOrphanLike>>
            /\ UNCHANGED <<apiVars, stVars, authVars, svcVars, psVars, navVars>>

\* createUser(userData)
CreateUser ==
    /\ DbCall
    /\ Len(dbUsers) < MaxUsers
    /\ dbUsers' = Append(dbUsers, [id |-> Len(dbUsers) + 1,
                                   username |-> "new_user", post_count |-> 0])
    /\ dbLast' = [op |-> "createUser", result |-> Len(dbUsers) + 1]
    /\ UNCHANGED <<dbPosts, dbComments, dbLikes, dbSavedPosts, currentUserId,
                   dbOrphanLike>>
    /\ UNCHANGED <<apiVars, stVars, authVars, svcVars, psVars, navVars>>

\* setCurrentUserId(userId)
SetCurrentUserId ==
    \E userId \in CurrentUserInputs :
        /\ DbCall
        /\ currentUserId' = userId
        /\ dbLast' = [op |-> "setCurrentUserId", userId |-> userId]
        /\ UNCHANGED <<dbUsers, dbPosts, dbComments, dbLikes, dbSavedPosts,
                       dbOrphanLike>>
        /\ UNCHANGED <<apiVars, stVars, authVars, svcVars, psVars, navVars>>

(***************************************************************************)
(* The simple in-memory store (lib/store): posts that carry their comments *)
(* inline, the current user, and the current user's saved post ids.        *)
(***************************************************************************)

MaxStPosts == 3

MaxStComments == 3

\* Math.max(...ids, 0)
MaxOf(ids) == IF ids = {} THEN 0 ELSE CHOOSE m \in ids \cup {0} : \A x \in ids \cup {0} : m >= x

\* An addComment that numbers the new comment by the length of the list.
AddCommentFn_CountsLength(posts, postId, username) ==
    LET k == FindIndex(posts, LAMBDA p : p.id = postId)
    IN  IF k = 0 THEN [posts |-> posts, result |-> 0]
        ELSE LET newId == Len(posts[k].comments)
             IN  [posts |-> [posts EXCEPT ![k].comments =
                                Append(@, [id |-> newId, username |-> username])],
                  result |-> newId]

\* addComment(postId, text): the new posts and the id of the comment
\* returned (0 for null).
AddCommentFn(posts, postId, username) ==
    LET k == FindIndex(posts, LAMBDA p : p.id = postId)
    IN  IF k = 0 THEN [posts |-> posts, result |-> 0]
        ELSE LET cs == posts[k].comments
                 newId == MaxOf({cs[i].id : i \in 1..Len(cs)}) + 1
             IN  [posts |-> [posts EXCEPT ![k].comments =
                                Append(@, [id |-> newId, username |-> username])],
                  result |-> newId]

\* A toggleSavePost that never looks the post up before saving it.
ToggleSavePostFn_AlwaysPush(saved, postId) ==
    [saved |-> Append(saved, postId), result |-> TRUE]

\* toggleSavePost(postId): indexOf, then splice(index, 1) or push.
ToggleSavePostFn(saved, postId) ==
    LET index == FindIndex(saved, LAMBDA x : x = postId)
    IN  IF index > 0
        THEN [saved  |-> SubSeq(saved, 1, index - 1)
                            \o SubSeq(saved, index + 1, Len(saved)),
              result |-> FALSE]
        ELSE [saved |-> Append(saved, postId), result |-> TRUE]

StPostInputs == {2, 9}

UsernameInputs == {"renamed"}

\* addComment(postId, text)
AddComment ==
    \E postId \in StPostInputs :
        LET r == AddCommentFn(stPosts, postId, stCurrentUser)
            k == FindIndex(stPosts, LAMBDA p : p.id = postId)
        IN  /\ DbCall
            /\ k # 0 => Len(stPosts[k].comments) < MaxStComments
            /\ stPosts' = r.posts
            /\ dbLast' = [op |-> "addComment", postId |-> postId,
                          result |-> r.result, username |-> stCurrentUser]
            /\ UNCHANGED <<stSavedPosts, stCurrentUser>>
            /\ UNCHANGED <<dbUsers, dbPosts, dbComments, dbLikes, dbSavedPosts,
                           currentUserId, dbOrphanLike>>
            /\ UNCHANGED <<apiVars, authVars, svcVars, psVars, navVars>>

\* toggleSavePost(postId)
ToggleSavePost ==
    \E postId \in StPostInputs :
        LET r == ToggleSavePostFn(stSavedPosts, postId)
        IN  /\ DbCall
            /\ stSavedPosts' = r.saved
            /\ dbLast' = [op |-> "toggleSavePost", postId |-> postId,
                          result |-> r.result]
            /\ UNCHANGED <<stPosts, stCurrentUser>>
            /\ UNCHANGED <<dbUsers, dbPosts, dbComments, dbLikes, dbSavedPosts,
                           currentUserId, dbOrphanLike>>
            /\ UNCHANGED <<apiVars, authVars, svcVars, psVars, navVars>>

\* addPost(post): the new post goes to the front (unshift).
AddPost ==
    LET newId == MaxOf({stPosts[i].id : i \in 1..Len(stPosts)}) + 1
    IN  /\ DbCall
        /\ Len(stPosts) < MaxStPosts
        /\ stPosts' = <<[id |-> newId, likes |-> 0, comments |-> <<>>]>> \o stPosts
        /\ dbLast' = [op |-> "addPost", result |-> newId]
        /\ UNCHANGED <<stSavedPosts, stCurrentUser>>
        /\ UNCHANGED <<dbUsers, dbPosts, dbComments, dbLikes, dbSavedPosts,
                       currentUserId, dbOrphanLike>>
        /\ UNCHANGED <<apiVars, authVars, svcVars, psVars, navVars>>

\* updateCurrentUser(updates)
UpdateCurrentUser ==
    \E username \in UsernameInputs :
        /\ DbCall
        /\ stCurrentUser' = username
        /\ dbLast' = [op |-> "updateCurrentUser", username |-> username]
        /\ UNCHANGED <<stPosts, stSavedPosts>>
        /\ UNCHANGED <<dbUsers, dbPosts, dbComments, dbLikes, dbSavedPosts,
                       currentUserId, dbOrphanLike>>
        /\ UNCHANGED <<apiVars, authVars, svcVars, psVars, navVars>>

NextDb ==
    \/ ToggleLike
    \/ ToggleSavedPost
    \/ CreatePost
    \/ CreateComment
    \/ CreateUser
    \/ SetCurrentUserId
    \/ AddComment
    \/ ToggleSavePost
    \/ AddPost
    \/ UpdateCurrentUser

(***************************************************************************)
(* The auth store (useAuthStore), the auth service it calls (AuthService:  *)
(* cookies, axios interceptors, handleResponse / handleError) and the      *)
(* persist middleware.  JavaScript runs one task at a time: a store action *)
(* runs up to its await in one step, and its continuation runs in one step *)
(* when the response of its request arrives.  The backend is outside the   *)
(* repository: every outcome of a request is possible.  The store's        *)
(* UserProfile field, a copy of user that nothing reads, is left out.      *)
(***************************************************************************)

Null == "null"

\* Most store actions suspended at an await at one time.
MaxInflight == 2

AuthUsers == {"demo", "jane"}

NoData == [user |-> Null, token |-> Null, sessionId |-> Null]

\* AuthResponse bodies of POST /login
LoginData ==
    { [user |-> "demo", token |-> "tokenA", sessionId |-> "sessionA"],
      [user |-> "jane", token |-> "tokenB", sessionId |-> "sessionB"] }

\* UserResponse bodies of GET /me
MeData == { [user |-> u, token |-> Null, sessionId |-> Null] : u \in AuthUsers }

\* MessageResponse bodies
MessageData == { [user |-> Null, token |-> Null, sessionId |-> Null] }

Ok(data) == [kind |-> "ok", status |-> 200, error |-> "", data |-> data]

\* A 2xx response with an empty body.
Empty == [kind |-> "empty", status |-> 200, error |-> "", data |-> NoData]

\* Responses outside 2xx (with the body's error field, "" when it has none),
\* a timeout (ECONNABORTED), and no response at all.
ErrorOutcomes ==
    { [kind |-> "http", status |-> 401, error |-> "Unauthorized", data |-> NoData],
      [kind |-> "http", status |-> 401, error |-> "Invalid or expired token", data |-> NoData],
      [kind |-> "http", status |-> 500, error |-> "", data |-> NoData],
      [kind |-> "timeout", status |-> 0, error |-> "", data |-> NoData],
      [kind |-> "network", status |-> 0, error |-> "", data |-> NoData] }

NoOutcome == [kind |-> "none", status |-> 0, error |-> "", data |-> NoData]

Outcomes(dataSet) == { Ok(d) : d \in dataSet } \cup {Empty} \cup ErrorOutcomes

\* handleError
HandleError(o) ==
    IF o.kind = "http" /\ o.error # "" THEN o.error
    ELSE IF o.kind = "timeout" THEN "Request timeout. Please try again."
    ELSE IF o.kind = "network" THEN "Network error. Please check your connection."
    ELSE "An unexpected error occurred. Please try again."

\* What a service method resolves to: handleResponse for 2xx, handleError
\* otherwise.  hasData is the truthiness of data.
ServiceResult(o) ==
    IF o.kind \in {"ok", "empty"}
    THEN [error |-> Null, hasData |-> o.kind = "ok", data |-> o.data]
    ELSE [error |-> HandleError(o), hasData |-> FALSE, data |-> NoData]

\* The messages, among those above, for which
\* error.includes('Unauthorized') || error.includes('401') is true.
IncludesUnauthorized(msg) == msg \in {"Unauthorized"}

NoCookies == [auth_token |-> Null, session_id |-> Null]

Is401(o) == o.kind = "http" /\ o.status = 401

Paths == {"/", "/auth/login"}

\* The response interceptor: a 401 clears the cookies and sends the browser
\* to /auth/login unless the path already includes it.
InterceptCookies(o, ck) == IF Is401(o) THEN NoCookies ELSE ck

InterceptLocation(o, path) ==
    IF Is401(o) /\ path # "/auth/login" THEN "/auth/login" ELSE path

InitialAuth ==
    [user |-> Null, token |-> Null, sessionId |-> Null,
     isAuthenticated |-> FALSE, isLoading |-> FALSE, error |-> Null]

\* zustand set(partial): the named fields are overwritten.
Merge(state, patch) ==
    [k \in DOMAIN state |-> IF k \in DOMAIN patch THEN patch[k] ELSE state[k]]

NoPatch == <<>>

\* A partialize that persists the token as well.
Partialize_WithToken(state) ==
    [user |-> state.user, isAuthenticated |-> state.isAuthenticated,
     token |-> state.token]

\* persist's partialize
Partialize(state) ==
    [user |-> state.user, isAuthenticated |-> state.isAuthenticated]

\* set(...) under persist: the store changes and the snapshot is rewritten.
StoreSet(patch) ==
    /\ auth' = Merge(auth, patch)
    /\ authStorage' = Partialize(Merge(auth, patch))

LoadingPatch == [isLoading |-> TRUE, error |-> Null]

ErrorPatch(msg) == [error |-> msg, isLoading |-> FALSE]

DonePatch == [isLoading |-> FALSE, error |-> Null]

\* A login success that forgets the session id.
LoginSuccessPatch_NoSession(data) ==
    [user |-> data.user, token |-> data.token,
     isAuthenticated |-> TRUE, isLoading |-> FALSE, error |-> Null]

LoginSuccessPatch(data) ==
    [user |-> data.user, token |-> data.token, sessionId |-> data.sessionId,
     isAuthenticated |-> TRUE, isLoading |-> FALSE, error |-> Null]

\* A logout that leaves the authenticated flag as it was.
LogoutPatch_KeepsFlag ==
    [user |-> Null, token |-> Null, sessionId |-> Null,
     isLoading |-> FALSE, error |-> Null]

\* A logout that leaves the loading flag and the error as they were.
LogoutPatch_KeepsLoading ==
    [user |-> Null, token |-> Null, sessionId |-> Null, isAuthenticated |-> FALSE]

\* logout's finally block
LogoutPatch ==
    [user |-> Null, token |-> Null, sessionId |-> Null,
     isAuthenticated |-> FALSE, isLoading |-> FALSE, error |-> Null]

\* getCurrentUser on an 'Unauthorized' / '401' error
UnauthorizedPatch ==
    [user |-> Null, token |-> Null, sessionId |-> Null,
     isAuthenticated |-> FALSE, isLoading |-> FALSE, error |-> Null]

\* checkAuthStatus without a token cookie
NoTokenPatch ==
    [user |-> Null, token |-> Null, sessionId |-> Null,
     isAuthenticated |-> FALSE, isLoading |-> FALSE, error |-> Null]

CurrentUserPatch(data) ==
    [user |-> data.user, isAuthenticated |-> TRUE,
     isLoading |-> FALSE, error |-> Null]

\* getCurrentUser's continuation: the patch it sets for a service result.
GetCurrentUserPatch(r) ==
    IF r.error # Null
    THEN IF IncludesUnauthorized(r.error) THEN UnauthorizedPatch
         ELSE ErrorPatch(r.error)
    ELSE IF r.hasData THEN CurrentUserPatch(r.data)
    ELSE NoPatch

Call(op, via) == [op |-> op, via |-> via]

Suspend(c) == calls' = calls (+) SetToBag({c})

Resume(c) == calls' = calls (-) SetToBag({c})

CanSuspend == BagCardinality(calls) < MaxInflight

Last(step, op, ret, o) == [step |-> step, op |-> op, ret |-> ret, outcome |-> o]

InitAuth ==
    /\ auth = InitialAuth
    /\ authStorage = Partialize(InitialAuth)
    /\ cookies = NoCookies
    /\ location = "/auth/login"
    /\ calls = EmptyBag
    /\ authLast = Last("init", "none", "void", NoOutcome)

AuthFrame == UNCHANGED <<apiVars, dbVars, stVars, svcVars, psVars, navVars>>

\* login(credentials), up to await authService.login(credentials)
LoginStart ==
    /\ CanSuspend
    /\ StoreSet(LoadingPatch)
    /\ Suspend(Call("login", "direct"))
    /\ authLast' = Last("start", "login", "void", NoOutcome)
    /\ UNCHANGED <<cookies, location>>
    /\ AuthFrame

\* The response of POST /login arrives: AuthService.login stores the tokens
\* of a 2xx body that has both, and login's continuation runs.
LoginDone ==
    \E o \in Outcomes(LoginData) :
        LET r == ServiceResult(o)
        IN  /\ BagIn(Call("login", "direct"), calls)
            /\ Resume(Call("login", "direct"))
            /\ cookies' = IF o.kind = "ok"
                          THEN [auth_token |-> o.data.token,
                                session_id |-> o.data.sessionId]
                          ELSE InterceptCookies(o, cookies)
            /\ location' = InterceptLocation(o, location)
            /\ StoreSet(IF r.error # Null THEN ErrorPatch(r.error)
                        ELSE IF r.hasData THEN LoginSuccessPatch(r.data)
                        ELSE ErrorPatch("Login failed"))
            /\ authLast' = Last("done", "login",
                                IF r.error = Null /\ r.hasData THEN "true" ELSE "false",
                                o)
            /\ AuthFrame

\* register(userData), up to its await
RegisterStart ==
    /\ CanSuspend
    /\ StoreSet(LoadingPatch)
    /\ Suspend(Call("register", "direct"))
    /\ authLast' = Last("start", "register", "void", NoOutcome)
    /\ UNCHANGED <<cookies, location>>
    /\ AuthFrame

RegisterDone ==
    \E o \in Outcomes(MessageData) :
        LET r == ServiceResult(o)
        IN  /\ BagIn(Call("register", "direct"), calls)
            /\ Resume(Call("register", "direct"))
            /\ cookies' = InterceptCookies(o, cookies)
            /\ location' = InterceptLocation(o, location)
            /\ StoreSet(IF r.error # Null THEN ErrorPatch(r.error)
                        ELSE IF r.hasData THEN DonePatch
                        ELSE ErrorPatch("Registration failed"))
            /\ authLast' = Last("done", "register",
                                IF r.error = Null /\ r.hasData THEN "true" ELSE "false",
                                o)
            /\ AuthFrame

\* logout() with no session_id cookie: AuthService.logout clears the cookies
\* and sends nothing; the finally block runs in the same task.
LogoutNoSession ==
    /\ cookies.session_id = Null
    /\ cookies' = NoCookies
    /\ StoreSet(LogoutPatch)
    /\ authLast' = Last("done", "logout", "void", NoOutcome)
    /\ UNCHANGED <<location, calls>>
    /\ AuthFrame

\* logout() with a session_id cookie, up to the POST /logout
LogoutStart ==
    /\ cookies.session_id # Null
    /\ CanSuspend
    /\ StoreSet([isLoading |-> TRUE])
    /\ Suspend(Call("logout", "direct"))
    /\ authLast' = Last("start", "logout", "void", NoOutcome)
    /\ UNCHANGED <<cookies, location>>
    /\ AuthFrame

\* The response of POST /logout arrives: the cookies are cleared whatever
\* it is, and the finally block clears the store.
LogoutDone ==
    \E o \in Outcomes(MessageData) :
        /\ BagIn(Call("logout", "direct"), calls)
        /\ Resume(Call("logout", "direct"))
        /\ cookies' = NoCookies
        /\ location' = InterceptLocation(o, location)
        /\ StoreSet(LogoutPatch)
        /\ authLast' = Last("done", "logout", "void", o)
        /\ AuthFrame

\* getCurrentUser(), up to its await
GetCurrentUserStart ==
    /\ CanSuspend
    /\ StoreSet(LoadingPatch)
    /\ Suspend(Call("getCurrentUser", "direct"))
    /\ authLast' = Last("start", "getCurrentUser", "void", NoOutcome)
    /\ UNCHANGED <<cookies, location>>
    /\ AuthFrame

\* The response of GET /me arrives, for getCurrentUser called directly, by
\* updateProfile (which then returns true) or by checkAuthStatus.
GetCurrentUserDone ==
    \E c \in BagToSet(calls), o \in Outcomes(MeData) :
        /\ c.op = "getCurrentUser"
        /\ Resume(c)
        /\ cookies' = InterceptCookies(o, cookies)
        /\ location' = InterceptLocation(o, location)
        /\ StoreSet(GetCurrentUserPatch(ServiceResult(o)))
        /\ authLast' = Last("done",
                            IF c.via = "direct" THEN "getCurrentUser" ELSE c.via,
                            IF c.via = "updateProfile" THEN "true" ELSE "void",
                            o)
        /\ AuthFrame

\* UpdateProfileRequest payloads: the name the user typed.  The values are
\* kept apart from the users the backend answers with, so that a field
\* written from the request can be told from one written from a response.
ProfileInputs == {"edited"}

\* An optimistic update: the requested name is written to the store.
UpdateProfileStartPatch_Optimistic(data) ==
    [user |-> data, isLoading |-> TRUE, error |-> Null]

\* updateProfile's first set(...)
UpdateProfileStartPatch(data) == [isLoading |-> TRUE, error |-> Null]

\* updateProfile(data), up to await authService.updateProfile(data)
UpdateProfileStart ==
  \E data \in ProfileInputs :
    /\ CanSuspend
    /\ StoreSet(UpdateProfileStartPatch(data))
    /\ Suspend(Call("updateProfile", "direct"))
    /\ authLast' = Last("start", "updateProfile", "void", NoOutcome)
    /\ UNCHANGED <<cookies, location>>
    /\ AuthFrame

\* The response of PUT /profile arrives with an error: updateProfile
\* returns false.
UpdateProfileFailed ==
    \E o \in ErrorOutcomes :
        /\ BagIn(Call("updateProfile", "direct"), calls)
        /\ Resume(Call("updateProfile", "direct"))
        /\ cookies' = InterceptCookies(o, cookies)
        /\ location' = InterceptLocation(o, location)
        /\ StoreSet(ErrorPatch(HandleError(o)))
        /\ authLast' = Last("done", "updateProfile", "false", o)
        /\ AuthFrame

\* The response of PUT /profile arrives without an error: updateProfile
\* calls getCurrentUser and waits for it.
UpdateProfileRefetch ==
    \E o \in Outcomes(MessageData) \ ErrorOutcomes :
        /\ BagIn(Call("updateProfile", "direct"), calls)
        /\ calls' = (calls (-) SetToBag({Call("updateProfile", "direct")}))
                        (+) SetToBag({Call("getCurrentUser", "updateProfile")})
        /\ StoreSet(LoadingPatch)
        /\ authLast' = Last("start", "getCurrentUser", "void", o)
        /\ UNCHANGED <<cookies, location>>
        /\ AuthFrame

SimpleOps == {"requestPasswordReset", "completePasswordReset", "verifyEmail"}

\* requestPasswordReset / completePasswordReset / verifyEmail, up to the await
SimpleStart ==
    \E op \in SimpleOps :
        /\ CanSuspend
        /\ StoreSet(LoadingPatch)
        /\ Suspend(Call(op, "direct"))
        /\ authLast' = Last("start", op, "void", NoOutcome)
        /\ UNCHANGED <<cookies, location>>
        /\ AuthFrame

SimpleDone ==
    \E op \in SimpleOps, o \in Outcomes(MessageData) :
        LET r == ServiceResult(o)
        IN  /\ BagIn(Call(op, "direct"), calls)
            /\ Resume(Call(op, "direct"))
            /\ cookies' = InterceptCookies(o, cookies)
            /\ location' = InterceptLocation(o, location)
            /\ StoreSet(IF r.error # Null THEN ErrorPatch(r.error) ELSE DonePatch)
            /\ authLast' = Last("done", op,
                                IF r.error = Null THEN "true" ELSE "false", o)
            /\ AuthFrame

\* clearError()
ClearError ==
    /\ StoreSet([error |-> Null])
    /\ authLast' = Last("sync", "clearError", "void", NoOutcome)
    /\ UNCHANGED <<cookies, location, calls>>
    /\ AuthFrame

\* setLoading(loading)
SetLoading ==
    \E loading \in BOOLEAN :
        /\ StoreSet([isLoading |-> loading])
        /\ authLast' = Last("sync", "setLoading", "void", NoOutcome)
        /\ UNCHANGED <<cookies, location, calls>>
        /\ AuthFrame

\* A guard that lets every call through.
CheckAuthStatusGuard_Never(state) == FALSE

\* checkAuthStatus's guard: if (currentState.isLoading) return
CheckAuthStatusGuard(state) == state.isLoading

\* checkAuthStatus() while isLoading: returns at once.
CheckAuthStatusSkipped ==
    /\ CheckAuthStatusGuard(auth)
    /\ authLast' = Last("skip", "checkAuthStatus", "void", NoOutcome)
    /\ UNCHANGED <<auth, authStorage, cookies, location, calls>>
    /\ AuthFrame

\* checkAuthStatus() with a token cookie: it calls getCurrentUser and waits.
CheckAuthStatusWithToken ==
    /\ ~CheckAuthStatusGuard(auth)
    /\ cookies.auth_token # Null
    /\ CanSuspend
    /\ StoreSet(LoadingPatch)
    /\ Suspend(Call("getCurrentUser", "checkAuthStatus"))
    /\ authLast' = Last("start", "checkAuthStatus", "void", NoOutcome)
    /\ UNCHANGED <<cookies, location>>
    /\ AuthFrame

\* checkAuthStatus() without a token cookie: the store is cleared.
CheckAuthStatusNoToken ==
    /\ ~CheckAuthStatusGuard(auth)
    /\ cookies.auth_token = Null
    /\ StoreSet(NoTokenPatch)
    /\ authLast' = Last("done", "checkAuthStatus", "void", NoOutcome)
    /\ UNCHANGED <<cookies, location, calls>>
    /\ AuthFrame

\* What the store holds after a page load: the initial state, with the
\* persisted fields merged in.
Rehydrated(stored) == Merge(InitialAuth, stored)

\* The page is loaded again: the store is created anew and rehydrated from
\* localStorage; the actions that were waiting are gone; cookies stay.
Reload ==
    /\ auth' = Rehydrated(authStorage)
    /\ authStorage' = Partialize(Rehydrated(authStorage))
    /\ calls' = EmptyBag
    /\ authLast' = Last("reload", "none", "void", NoOutcome)
    /\ UNCHANGED <<cookies, location>>
    /\ AuthFrame

\* Client-side navigation between a page and the login page.
Navigate ==
    \E path \in Paths :
        /\ path # location
        /\ location' = path
        /\ authLast' = Last("sync", "navigate", "void", NoOutcome)
        /\ UNCHANGED <<auth, authStorage, cookies, calls>>
        /\ AuthFrame

NextAuth ==
    \/ LoginStart
    \/ LoginDone
    \/ RegisterStart
    \/ RegisterDone
    \/ LogoutNoSession
    \/ LogoutStart
    \/ LogoutDone
    \/ GetCurrentUserStart
    \/ GetCurrentUserDone
    \/ UpdateProfileStart
    \/ UpdateProfileFailed
    \/ UpdateProfileRefetch
    \/ SimpleStart
    \/ SimpleDone
    \/ ClearError
    \/ SetLoading
    \/ CheckAuthStatusSkipped
    \/ CheckAuthStatusWithToken
    \/ CheckAuthStatusNoToken
    \/ Reload
    \/ Navigate

(***************************************************************************)
(* The service layer: AuthService, PostsService, LikesService,             *)
(* CommentsService and SearchService (axios instances with interceptors)   *)
(* and the two fetch-based ApiClient classes.  A service method is called, *)
(* the HTTP call (if one is made) has one of the outcomes below, and the   *)
(* method returns a result object; svcLast keeps the call until the caller *)
(* has taken the result.                                                   *)
(***************************************************************************)

\* Methods whose body is: try { one request; return handleResponse(...) }
\* catch (error) { return handleError(error) }.
PlainMethods ==
    [auth |-> {"healthCheck", "register", "getCurrentUser", "updateProfile",
               "requestPasswordReset", "completePasswordReset", "verifyEmail"},
     posts |-> {"createPost", "getPosts", "getPost", "updatePost", "deletePost",
                "getUserPosts"},
     likes |-> {"toggleLike", "checkLikeStatus", "getPostLikes", "getLikeStats",
                "getUserLikedPosts"},
     comments |-> {"addComment", "getComments", "updateComment", "deleteComment",
                   "getCommentReplies"}]

\* The two ApiClient classes: the one that reads the auth_token cookie and
\* handles 401, and the one that does neither.
FetchClients == {"apiClient", "apiClientPlain"}

\* Outcomes of one HTTP call.  body: "data" a JSON body, "error" a JSON body
\* with an error field, "json" a JSON body without one, "none" no body.
Responses ==
    { [kind |-> "ok", status |-> 200, body |-> b] : b \in {"data", "none"} }
    \cup { [kind |-> "http", status |-> st, body |-> b] :
               st \in {401, 500}, b \in {"error", "json", "none"} }
    \cup { [kind |-> "timeout", status |-> 0, body |-> "none"],
           [kind |-> "network", status |-> 0, body |-> "none"] }

NoResponse == [kind |-> "none", status |-> 0, body |-> "none"]

\* The error field of an error body.
BodyError(o) == IF o.status = 401 THEN "Unauthorized" ELSE "Internal server error"

\* response.data as axios gives it: the parsed body, '' when there is none.
ResponseData(o) == IF o.body = "none" THEN "" ELSE "body"

\* The field k of a result object is set, as the callers test it
\* (if (response.error) ..., if (response.data) ...).
IsSet(result, k) == k \in DOMAIN result /\ result[k] # ""

\* handleResponse of every service: { data: response.data }
SvcHandleResponse(svc, o) == [data |-> ResponseData(o)]

\* handleError of the auth, posts, likes and comments services, and of the
\* search service.
SvcHandleError(svc, o) ==
    IF svc = "search"
    THEN IF o.kind = "http" /\ o.body # "none"
         THEN [error |-> IF o.body = "error" THEN BodyError(o)
                         ELSE "Search request failed"]
         ELSE IF o.kind = "timeout"
         THEN [error |-> "Search request timed out. Please try again."]
         ELSE IF o.kind = "network"
         THEN [error |-> "Network error. Please check your connection and try again."]
         ELSE [error |-> "An unexpected error occurred during search."]
    ELSE IF o.kind = "http" /\ o.body = "error"
         THEN [error |-> BodyError(o)]
         ELSE IF o.kind = "timeout"
         THEN [error |-> "Request timeout. Please try again."]
         ELSE IF o.kind = "network"
         THEN [error |-> "Network error. Please check your connection."]
         ELSE [error |-> "An unexpected error occurred. Please try again."]

\* What an axios-based method returns for an outcome of its request.
SvcResult(svc, o) ==
    IF o.kind = "ok" THEN SvcHandleResponse(svc, o) ELSE SvcHandleError(svc, o)

\* ApiClient.request: response.json() throws on an empty body, and every
\* exception becomes "Network error".
FetchResult(o) ==
    IF o.kind \in {"timeout", "network"} \/ o.body = "none"
    THEN [error |-> "Network error"]
    ELSE IF o.kind = "http"
    THEN [error |-> IF o.body = "error" THEN BodyError(o) ELSE "An error occurred"]
    ELSE [data |-> "body"]

\* An interceptor that reacts to no response.
SvcHandles401_Never(svc, o) == FALSE

\* The response interceptors: those of the auth, posts, likes and comments
\* services clear the cookies and redirect on a 401; that of the search
\* service logs a warning; the cookie-aware ApiClient does it once the body
\* of the 401 has been parsed; the other ApiClient has no such code.
SvcHandles401(svc, o) ==
    /\ Is401(o)
    /\ \/ svc \in {"auth", "posts", "likes", "comments"}
       \/ svc = "apiClient" /\ o.body # "none"

SvcCookies(svc, o, ck) == IF SvcHandles401(svc, o) THEN NoCookies ELSE ck

\* window.location.href = '/auth/login' unless the path includes it.
SvcLocation(svc, o, path) ==
    IF SvcHandles401(svc, o) /\ path # "/auth/login" THEN "/auth/login" ELSE path

\* Values of a SearchRequest field: absent, a string, or (tags) an array.
Undefined == [type |-> "undefined", len |-> 0]

StringInputs == { [type |-> "string", len |-> n] : n \in {0, 1} }

ArrayInputs == { [type |-> "array", len |-> n] : n \in {0, 1} }

\* JavaScript truthiness of such a value: !value is false.
Truthy(v) == v.type = "array" \/ (v.type = "string" /\ v.len > 0)

SearchRequests ==
    [tags : {Undefined} \cup StringInputs \cup ArrayInputs,
     location : {Undefined} \cup StringInputs,
     city : {Undefined} \cup StringInputs,
     country : {Undefined} \cup StringInputs]

NoParams == [tags |-> Undefined, location |-> Undefined,
             city |-> Undefined, country |-> Undefined]

\* searchPosts' validation: !tags && !location && !city && !country
SearchRejected(params) ==
    /\ ~Truthy(params.tags)
    /\ ~Truthy(params.location)
    /\ ~Truthy(params.city)
    /\ ~Truthy(params.country)

SearchValidationError ==
    "At least one search parameter (tags, location, city, or country) must be provided."

SvcCall(svc, method, params, requests, url, o, result) ==
    [service |-> svc, method |-> method, params |-> params,
     requests |-> requests, url |-> url, response |-> o, result |-> result,
     cookiesBefore |-> cookies, pathBefore |-> location]

SvcNone ==
    [service |-> "none", method |-> "none", params |-> NoParams,
     requests |-> 0, url |-> "none", response |-> NoResponse,
     result |-> [data |-> ""],
     cookiesBefore |-> NoCookies, pathBefore |-> "/auth/login"]

SvcIdle == svcLast.service = "none"

InitSvc == svcLast = SvcNone

SvcFrame ==
    /\ UNCHANGED <<auth, authStorage, calls, authLast>>
    /\ UNCHANGED <<apiVars, dbVars, stVars, psVars, navVars>>

\* Any method of PlainMethods.
SvcPlainCall ==
    \E svc \in DOMAIN PlainMethods, o \in Responses :
        \E method \in PlainMethods[svc] :
            /\ SvcIdle
            /\ cookies' = SvcCookies(svc, o, cookies)
            /\ location' = SvcLocation(svc, o, location)
            /\ svcLast' = SvcCall(svc, method, NoParams, 1, "request", o, SvcResult(svc, o))
            /\ SvcFrame

\* authService.login: the tokens of a 2xx body are stored in the cookies.
SvcLogin ==
    \E o \in Responses, d \in LoginData :
        /\ SvcIdle
        /\ cookies' = IF o.kind = "ok" /\ o.body = "data"
                      THEN [auth_token |-> d.token, session_id |-> d.sessionId]
                      ELSE SvcCookies("auth", o, cookies)
        /\ location' = SvcLocation("auth", o, location)
        /\ svcLast' = SvcCall("auth", "login", NoParams, 1, "POST /login", o,
                              SvcResult("auth", o))
        /\ SvcFrame

\* authService.logout: without a session_id cookie no request is sent; the
\* cookies are cleared in every case.
SvcLogout ==
    \E o \in Responses :
        /\ SvcIdle
        /\ cookies' = NoCookies
        /\ IF cookies.session_id = Null
           THEN /\ location' = location
                /\ svcLast' = SvcCall("auth", "logout", NoParams, 0, "none", NoResponse,
                                      [data |-> "body"])
           ELSE /\ location' = SvcLocation("auth", o, location)
                /\ svcLast' = SvcCall("auth", "logout", NoParams, 1, "POST /logout", o,
                                      SvcResult("auth", o))
        /\ SvcFrame

\* searchService.searchPosts(searchParams); searchByTags, searchByLocation,
\* searchByCity and searchByCountry are calls of it with one field given.
SvcSearchPosts ==
    \E params \in SearchRequests, o \in Responses :
        /\ SvcIdle
        /\ IF SearchRejected(params)
           THEN /\ UNCHANGED <<cookies, location>>
                /\ svcLast' = SvcCall("search", "searchPosts", params, 0, "none",
                                      NoResponse, [error |-> SearchValidationError])
           ELSE /\ cookies' = SvcCookies("search", o, cookies)
                /\ location' = SvcLocation("search", o, location)
                /\ svcLast' = SvcCall("search", "searchPosts", params, 1, "GET /search",
                                      o, SvcResult("search", o))
        /\ SvcFrame

\* ApiClient.request of either class.
SvcFetch ==
    \E client \in FetchClients, o \in Responses :
        /\ SvcIdle
        /\ cookies' = SvcCookies(client, o, cookies)
        /\ location' = SvcLocation(client, o, location)
        /\ svcLast' = SvcCall(client, "request", NoParams, 1, "request", o, FetchResult(o))
        /\ SvcFrame

\* The caller has taken the result.
SvcReturned ==
    /\ ~SvcIdle
    /\ svcLast' = SvcNone
    /\ UNCHANGED <<cookies, location>>
    /\ SvcFrame

NextSvc ==
    \/ SvcPlainCall
    \/ SvcLogin
    \/ SvcLogout
    \/ SvcSearchPosts
    \/ SvcFetch
    \/ SvcReturned
    \/ Navigate

(***************************************************************************)
(* The posts store (usePostsStore) over the posts, likes, comments and     *)
(* search services.  As in the auth store, an action runs up to its await  *)
(* in one step and its continuation runs in one step when the response of  *)
(* its request arrives; several actions can be waiting at one time, and    *)
(* their responses arrive in any order.  Modelled: fetchPosts, fetchPost,  *)
(* fetchUserPosts, addComment, deleteComment, toggleLike, searchPosts,     *)
(* loadMoreSearchResults and clearSearchResults.  A post is its $id with   *)
(* its likesCount and commentsCount; of a Pagination, page and hasNextPage *)
(* are kept (the store reads no other field).                              *)
(***************************************************************************)

\* Most posts-store actions started in one behaviour.
MaxPsOps == 3

PostIds == {"p1", "p2"}

\* The post the like and comment actions are called for.
TargetIds == {"p1"}

CommentIds == {"c1", "c2"}

Post(id, likes, comments) == [id |-> id, likesCount |-> likes, commentsCount |-> comments]

\* currentPost: null
NoPost == Post(Null, 0, 0)

Pagination(page, more) == [isNull |-> FALSE, page |-> page, hasNextPage |-> more]

\* pagination: null
NoPagination == [isNull |-> TRUE, page |-> 0, hasNextPage |-> FALSE]

\* Bodies of GET / and GET /user/:id: data.posts and data.pagination
FeedPages ==
    { [posts |-> <<Post("p1", 1, 0)>>, pagination |-> Pagination(1, TRUE)],
      [posts |-> <<Post("p2", 1, 1), Post("p1", 1, 0)>>,
       pagination |-> Pagination(2, FALSE)] }

\* Bodies of GET /:postId: data.post
PostBodies(postId) == { [post |-> Post(postId, 1, 1)] }

\* Bodies of POST /:postId/likes: data.isLiked and data.likesCount
LikeBodies == [isLiked : BOOLEAN, likesCount : {7}]

\* Bodies of POST /:postId/comments: data (the new comment)
CommentBodies == [comment : CommentIds]

\* Bodies of DELETE /:postId/comments/:commentId
DeletedBodies == { [message |-> "Comment deleted"] }

\* Filters of a SearchRequest: none (no tags, location, city or country),
\* or one of two queries.
Filters == {"none", "q1", "q2"}

\* A post as GET /search returns it: it carries the tags / location the
\* query asked for, written here as the filter it matches.
Found(post, filter) ==
    [id |-> post.id, likesCount |-> post.likesCount,
     commentsCount |-> post.commentsCount, matches |-> filter]

\* Bodies of GET /search for a filter
SearchPages(filter) ==
    { [posts |-> <<Found(Post("p1", 1, 0), filter)>>, pagination |-> Pagination(1, TRUE)],
      [posts |-> <<Found(Post("p2", 1, 1), filter)>>, pagination |-> Pagination(2, FALSE)] }

\* lastSearchParams: null
NoSearch == [filter |-> Null, page |-> 0]

NoBody == [none |-> TRUE]

\* Outcomes of the request of a store action whose 2xx body is in bodies.
PsResponses(bodies) ==
    { [kind |-> "ok", status |-> 200, body |-> "data", data |-> d] : d \in bodies }
    \cup { [kind |-> "ok", status |-> 200, body |-> "none", data |-> NoBody],
           [kind |-> "http", status |-> 401, body |-> "error", data |-> NoBody] }

\* searchService.searchPosts returned its validation error: no request.
Rejected == [kind |-> "rejected", status |-> 0, body |-> "none", data |-> NoBody]

NoPsResponse == [kind |-> "none", status |-> 0, body |-> "none", data |-> NoBody]

Range(seq) == { seq[i] : i \in DOMAIN seq }

\* A JavaScript value that holds post ids: a Set or an Array with its
\* elements in order, or the plain object {} that JSON makes of a Set.
JsSet(items) == [type |-> "Set", items |-> items]

JsArray(items) == [type |-> "Array", items |-> items]

JsObject == [type |-> "Object", items |-> <<>>]

\* The elements in order, without the repetitions a Set drops.
Dedup(seq) ==
    LET Kept[i \in 0..Len(seq)] ==
            IF i = 0 THEN <<>>
            ELSE IF seq[i] \in Range(Kept[i - 1]) THEN Kept[i - 1]
                 ELSE Append(Kept[i - 1], seq[i])
    IN  Kept[Len(seq)]

\* [...value]
Spread(value) == value.items

\* new Set(iterable)
NewSet(seq) == JsSet(Dedup(seq))

\* Array.from(value)
ArrayFrom(value) == JsArray(Spread(value))

\* Array.isArray(value)
IsArray(value) == value.type = "Array"

\* value.has(id) is defined, and true for these ids.
Members(value) == Range(Spread(value))

\* JSON.parse(JSON.stringify(value)): an array stays an array, a Set
\* becomes {}.
JsonRoundTrip(value) == IF IsArray(value) THEN value ELSE JsObject

InitialPosts ==
    [posts |-> <<>>, currentPost |-> NoPost, userPosts |-> <<>>,
     searchResults |-> <<>>, searchLoading |-> FALSE, searchError |-> Null,
     searchPagination |-> NoPagination, lastSearchParams |-> NoSearch,
     comments |-> [p \in PostIds |-> <<>>], likedPosts |-> NewSet(<<>>),
     loading |-> FALSE, commentsLoading |-> FALSE, likesLoading |-> FALSE,
     error |-> Null, commentsError |-> Null, likesError |-> Null,
     pagination |-> NoPagination]

\* array.filter(x => x !== value)
Without(seq, value) == SelectSeq(seq, LAMBDA x : x # value)

\* new Set([...set, value])
SetAdd(set, value) == NewSet(Append(Spread(set), value))

\* new Set([...set].filter(id => id !== value))
SetDelete(set, value) == NewSet(Without(Spread(set), value))

\* A partialize that hands the Set itself to JSON.stringify.
PsPartialize_KeepsSet(state) == [likedPosts |-> state.likedPosts]

\* persist's partialize of the posts store: likedPosts as an array
PsPartialize(state) == [likedPosts |-> ArrayFrom(state.likedPosts)]

\* What localStorage gives back for a partial state: its JSON, parsed.
PsStored(state) == [likedPosts |-> JsonRoundTrip(PsPartialize(state).likedPosts)]

\* onRehydrateStorage's callback on the merged state
PsOnRehydrate(state) ==
    IF IsArray(state.likedPosts)
    THEN [state EXCEPT !.likedPosts = NewSet(Spread(@))]
    ELSE state

\* set(...) under persist
PsSet(patch) ==
    /\ ps' = Merge(ps, patch)
    /\ psStorage' = PsStored(Merge(ps, patch))

\* The service each action calls, and the fields it reports through.
PsService ==
    [fetchPosts |-> "posts", fetchPost |-> "posts", fetchUserPosts |-> "posts",
     addComment |-> "comments", deleteComment |-> "comments",
     toggleLike |-> "likes", searchPosts |-> "search",
     loadMoreSearchResults |-> "search"]

PsErrorField ==
    [fetchPosts |-> "error", fetchPost |-> "error", fetchUserPosts |-> "error",
     addComment |-> "commentsError", deleteComment |-> "commentsError",
     toggleLike |-> "likesError", searchPosts |-> "searchError",
     loadMoreSearchResults |-> "searchError"]

PsLoadingField ==
    [fetchPosts |-> "loading", fetchPost |-> "loading", fetchUserPosts |-> "loading",
     addComment |-> "commentsLoading", deleteComment |-> "commentsLoading",
     toggleLike |-> "likesLoading", searchPosts |-> "searchLoading",
     loadMoreSearchResults |-> "searchLoading"]

\* response.error || '...'
PsFailureMessage ==
    [fetchPosts |-> "Failed to fetch posts", fetchPost |-> "Failed to fetch post",
     fetchUserPosts |-> "Failed to fetch user posts",
     addComment |-> "Failed to add comment",
     deleteComment |-> "Failed to delete comment",
     toggleLike |-> "Failed to toggle like",
     searchPosts |-> "Failed to search posts",
     loadMoreSearchResults |-> "Failed to load more search results"]

\* What the service method resolves to for an outcome.
PsResult(op, o) ==
    IF o.kind = "rejected" THEN [error |-> SearchValidationError]
    ELSE SvcResult(PsService[op], o)

\* set({ <loading>: true, <error>: null })
PsStartPatch(op) ==
    (PsLoadingField[op] :> TRUE) @@ (PsErrorField[op] :> Null)

\* The else branch: set({ <error>: response.error || '...', <loading>: false })
PsFailurePatch(op, r) ==
    (PsErrorField[op] :> (IF IsSet(r, "error") THEN r.error ELSE PsFailureMessage[op]))
    @@ (PsLoadingField[op] :> FALSE)

\* A fetchPosts that drops a response older than the one already shown.
FetchPostsPatch_Versioned(state, c, data) ==
    IF c.seq < psApplied.posts THEN [loading |-> FALSE]
    ELSE [posts |-> data.posts, pagination |-> data.pagination, loading |-> FALSE]

\* fetchPosts on response.data
FetchPostsPatch(state, c, data) ==
    [posts |-> data.posts, pagination |-> data.pagination, loading |-> FALSE]

\* fetchUserPosts on response.data
FetchUserPostsPatch(state, c, data) ==
    [userPosts |-> data.posts, pagination |-> data.pagination, loading |-> FALSE]

\* fetchPost on response.data
FetchPostPatch(state, c, data) == [currentPost |-> data.post, loading |-> FALSE]

\* posts.map(post => post.$id === postId ? change(post) : post)
MapPost(posts, postId, Change(_)) ==
    [i \in DOMAIN posts |-> IF posts[i].id = postId THEN Change(posts[i]) ELSE posts[i]]

\* A toggleLike that counts locally instead of taking the server's count.
ToggleLikePatch_LocalCount(state, c, data) ==
    LET Liked(post) ==
            [post EXCEPT !.likesCount = IF data.isLiked THEN @ + 1 ELSE @ - 1]
    IN  [likedPosts |-> IF data.isLiked THEN SetAdd(state.likedPosts, c.postId)
                        ELSE SetDelete(state.likedPosts, c.postId),
         posts |-> MapPost(state.posts, c.postId, Liked),
         currentPost |-> IF state.currentPost.id = c.postId
                         THEN Liked(state.currentPost) ELSE state.currentPost,
         likesLoading |-> FALSE]

\* toggleLike on response.data
ToggleLikePatch(state, c, data) ==
    LET Liked(post) == [post EXCEPT !.likesCount = data.likesCount]
    IN  [likedPosts |-> IF data.isLiked THEN SetAdd(state.likedPosts, c.postId)
                        ELSE SetDelete(state.likedPosts, c.postId),
         posts |-> MapPost(state.posts, c.postId, Liked),
         currentPost |-> IF state.currentPost.id = c.postId
                         THEN Liked(state.currentPost) ELSE state.currentPost,
         likesLoading |-> FALSE]

\* addComment on response.data
AddCommentPatch(state, c, data) ==
    LET Counted(post) == [post EXCEPT !.commentsCount = @ + 1]
    IN  [comments |-> [state.comments EXCEPT ![c.postId] = <<data.comment>> \o @],
         posts |-> MapPost(state.posts, c.postId, Counted),
         currentPost |-> IF state.currentPost.id = c.postId
                         THEN Counted(state.currentPost) ELSE state.currentPost,
         commentsLoading |-> FALSE]

\* A deleteComment without Math.max(0, ...).
DeleteCommentPatch_NoFloor(state, c, data) ==
    LET Counted(post) == [post EXCEPT !.commentsCount = @ - 1]
    IN  [comments |-> [state.comments EXCEPT ![c.postId] = Without(@, c.commentId)],
         posts |-> MapPost(state.posts, c.postId, Counted),
         currentPost |-> IF state.currentPost.id = c.postId
                         THEN Counted(state.currentPost) ELSE state.currentPost,
         commentsLoading |-> FALSE]

\* deleteComment on response.data
DeleteCommentPatch(state, c, data) ==
    LET Counted(post) ==
            [post EXCEPT !.commentsCount = IF @ - 1 > 0 THEN @ - 1 ELSE 0]
    IN  [comments |-> [state.comments EXCEPT ![c.postId] = Without(@, c.commentId)],
         posts |-> MapPost(state.posts, c.postId, Counted),
         currentPost |-> IF state.currentPost.id = c.postId
                         THEN Counted(state.currentPost) ELSE state.currentPost,
         commentsLoading |-> FALSE]

\* searchPosts on response.data
SearchPostsPatch(state, c, data) ==
    [searchResults |-> data.posts, searchPagination |-> data.pagination,
     searchLoading |-> FALSE]

\* A loadMoreSearchResults that replaces the results by the new page.
LoadMorePatch_Replace(state, c, data) ==
    [searchResults |-> data.posts, searchPagination |-> data.pagination,
     lastSearchParams |-> [filter |-> c.filter, page |-> c.page],
     searchLoading |-> FALSE]

\* loadMoreSearchResults on response.data: searchResults is the array read
\* by get() before the await.
LoadMorePatch(state, c, data) ==
    [searchResults |-> c.captured \o data.posts,
     searchPagination |-> data.pagination,
     lastSearchParams |-> [filter |-> c.filter, page |-> c.page],
     searchLoading |-> FALSE]

\* The patch of the if (response.data) branch of each action.
PsSuccessPatch(state, c, data) ==
    CASE c.op = "fetchPosts" -> FetchPostsPatch(state, c, data)
      [] c.op = "fetchUserPosts" -> FetchUserPostsPatch(state, c, data)
      [] c.op = "fetchPost" -> FetchPostPatch(state, c, data)
      [] c.op = "toggleLike" -> ToggleLikePatch(state, c, data)
      [] c.op = "addComment" -> AddCommentPatch(state, c, data)
      [] c.op = "deleteComment" -> DeleteCommentPatch(state, c, data)
      [] c.op = "searchPosts" -> SearchPostsPatch(state, c, data)
      [] c.op = "loadMoreSearchResults" -> LoadMorePatch(state, c, data)

\* The 2xx bodies the request of a call can be answered with.
PsBodies(c) ==
    CASE c.op \in {"fetchPosts", "fetchUserPosts"} -> FeedPages
      [] c.op = "fetchPost" -> PostBodies(c.postId)
      [] c.op = "toggleLike" -> LikeBodies
      [] c.op = "addComment" -> CommentBodies
      [] c.op = "deleteComment" -> DeletedBodies
      [] c.op \in {"searchPosts", "loadMoreSearchResults"} -> SearchPages(c.filter)

\* A suspended action: its name, its issue number, its arguments, and (for
\* loadMoreSearchResults) the searchResults it read before the await.
PsCall(op, seq, postId, commentId, filter, page, captured) ==
    [op |-> op, seq |-> seq, postId |-> postId, commentId |-> commentId,
     filter |-> filter, page |-> page, captured |-> captured]

PsStep(step, c, o, ret, applied) ==
    [step |-> step, call |-> c, outcome |-> o, ret |-> ret, appliedBefore |-> applied]

NoPsCall == PsCall("none", 0, Null, Null, Null, 0, <<>>)

NoApplied == [posts |-> 0, userPosts |-> 0, currentPost |-> 0, pagination |-> 0]

\* The lists a successful response of the call writes.
PsWrites(c) ==
    CASE c.op = "fetchPosts" -> {"posts", "pagination"}
      [] c.op = "fetchUserPosts" -> {"userPosts", "pagination"}
      [] c.op = "fetchPost" -> {"currentPost"}
      [] OTHER -> {}

InitPs ==
    /\ ps = InitialPosts
    /\ psStorage = PsStored(InitialPosts)
    /\ psCalls = {}
    /\ psOps = 0
    /\ psApplied = NoApplied
    /\ psLast = PsStep("init", NoPsCall, NoPsResponse, "void", 0)

PsFrame ==
    /\ UNCHANGED <<auth, authStorage, calls, authLast>>
    /\ UNCHANGED <<apiVars, dbVars, stVars, svcVars, navVars>>

\* An action up to its await.
PsStart(c) ==
    /\ psOps < MaxPsOps
    /\ PsSet(PsStartPatch(c.op))
    /\ psCalls' = psCalls \cup {c}
    /\ psOps' = psOps + 1
    /\ psLast' = PsStep("start", c, NoPsResponse, "void", 0)
    /\ UNCHANGED <<psApplied, cookies, location>>
    /\ PsFrame

\* The continuation of an action when its request has outcome o.
PsDone(c, o) ==
    LET r == PsResult(c.op, o)
        ok == IsSet(r, "data")
    IN  /\ c \in psCalls
        /\ psCalls' = psCalls \ {c}
        /\ cookies' = SvcCookies(PsService[c.op], o, cookies)
        /\ location' = SvcLocation(PsService[c.op], o, location)
        /\ PsSet(IF ok THEN PsSuccessPatch(ps, c, o.data)
                 ELSE PsFailurePatch(c.op, r))
        /\ psApplied' = IF ok
                        THEN [k \in DOMAIN psApplied |->
                                 IF k \in PsWrites(c) THEN c.seq ELSE psApplied[k]]
                        ELSE psApplied
        /\ psLast' = PsStep("done", c, o,
                            IF c.op \in {"toggleLike", "addComment", "deleteComment"}
                            THEN (IF ok THEN "true" ELSE "false") ELSE "void",
                            IF c.op = "fetchUserPosts" THEN psApplied.userPosts
                            ELSE IF c.op = "fetchPost" THEN psApplied.currentPost
                            ELSE psApplied.posts)
        /\ UNCHANGED psOps
        /\ PsFrame

\* fetchPosts(page, limit, userId)
FetchPostsStart ==
    PsStart(PsCall("fetchPosts", psOps + 1, Null, Null, Null, 1, <<>>))

\* fetchUserPosts(userId, page, limit)
FetchUserPostsStart ==
    PsStart(PsCall("fetchUserPosts", psOps + 1, Null, Null, Null, 1, <<>>))

\* fetchPost(postId)
FetchPostStart ==
    \E postId \in PostIds :
        PsStart(PsCall("fetchPost", psOps + 1, postId, Null, Null, 0, <<>>))

\* toggleLike(postId)
ToggleLikeStart ==
    \E postId \in TargetIds :
        PsStart(PsCall("toggleLike", psOps + 1, postId, Null, Null, 0, <<>>))

\* addComment(postId, commentData)
AddCommentStart ==
    \E postId \in TargetIds :
        PsStart(PsCall("addComment", psOps + 1, postId, Null, Null, 0, <<>>))

\* deleteComment(postId, commentId)
DeleteCommentStart ==
    \E postId \in TargetIds, commentId \in CommentIds :
        PsStart(PsCall("deleteComment", psOps + 1, postId, commentId, Null, 0, <<>>))

\* The response of the request of a feed, like or comment action arrives.
FeedDone ==
    \E c \in psCalls :
        /\ c.op \notin {"searchPosts", "loadMoreSearchResults"}
        /\ \E o \in PsResponses(PsBodies(c)) : PsDone(c, o)

\* searchPosts(searchParams)
SearchPostsStart ==
    \E filter \in Filters :
        LET c == PsCall("searchPosts", psOps + 1, Null, Null, filter, 1, <<>>)
        IN  /\ psOps < MaxPsOps
            /\ PsSet(PsStartPatch("searchPosts")
                     @@ [lastSearchParams |-> [filter |-> filter, page |-> 1]])
            /\ psCalls' = psCalls \cup {c}
            /\ psOps' = psOps + 1
            /\ psLast' = PsStep("start", c, NoPsResponse, "void", 0)
            /\ UNCHANGED <<psApplied, cookies, location>>
            /\ PsFrame

\* loadMoreSearchResults' guard: if (!searchPagination?.hasNextPage) return
LoadMoreGuard(state) == ~state.searchPagination.hasNextPage

\* (searchPagination.page || 1) + 1
NextPage(pagination) == (IF pagination.page = 0 THEN 1 ELSE pagination.page) + 1

\* loadMoreSearchResults(searchParams) when the guard returns at once.
LoadMoreSkipped ==
    \E filter \in Filters :
        /\ LoadMoreGuard(ps)
        /\ psOps < MaxPsOps
        /\ psOps' = psOps + 1
        /\ psLast' = PsStep("skip",
                            PsCall("loadMoreSearchResults", psOps + 1, Null, Null,
                                   filter, 0, <<>>),
                            NoPsResponse, "void", 0)
        /\ UNCHANGED <<ps, psStorage, psCalls, psApplied, cookies, location>>
        /\ PsFrame

\* loadMoreSearchResults(searchParams), up to its await.
LoadMoreStart ==
    \E filter \in Filters :
        /\ ~LoadMoreGuard(ps)
        /\ PsStart(PsCall("loadMoreSearchResults", psOps + 1, Null, Null, filter,
                          NextPage(ps.searchPagination), ps.searchResults))

\* searchService.searchPosts resolves: with its validation error when the
\* filter is empty, else with the outcome of GET /search.
SearchDone ==
    \E c \in psCalls :
        /\ c.op \in {"searchPosts", "loadMoreSearchResults"}
        /\ \E o \in IF c.filter = "none" THEN {Rejected}
                    ELSE PsResponses(PsBodies(c)) :
               PsDone(c, o)

\* clearSearchResults()
ClearSearchResults ==
    /\ psOps < MaxPsOps
    /\ psOps' = psOps + 1
    /\ PsSet([searchResults |-> <<>>, searchPagination |-> NoPagination,
              lastSearchParams |-> NoSearch, searchError |-> Null])
    /\ psLast' = PsStep("sync", PsCall("clearSearchResults", psOps + 1, Null, Null,
                                       Null, 0, <<>>),
                        NoPsResponse, "void", 0)
    /\ UNCHANGED <<psCalls, psApplied, cookies, location>>
    /\ PsFrame

\* The feed alone.
NextFetch ==
    \/ FetchPostsStart
    \/ FetchUserPostsStart
    \/ FetchPostStart
    \/ FeedDone

\* The page is loaded again: the store is created from its initial state,
\* persist merges what localStorage holds over it, writes the merged state
\* back and then runs onRehydrateStorage's callback on it.  The calls that
\* were waiting are gone with the old page.
PsReload ==
    LET merged == Merge(InitialPosts, psStorage)
    IN  /\ psOps < MaxPsOps
        /\ ps' = PsOnRehydrate(merged)
        /\ psStorage' = PsStored(merged)
        /\ psCalls' = {}
        /\ psOps' = psOps + 1
        /\ psApplied' = NoApplied
        /\ psLast' = PsStep("reload", NoPsCall, NoPsResponse, "void", 0)
        /\ UNCHANGED <<cookies, location>>
        /\ PsFrame

\* Likes on a loaded feed and a loaded post, across page loads.
NextLikes ==
    \/ FetchPostsStart
    \/ FetchPostStart
    \/ ToggleLikeStart
    \/ FeedDone
    \/ PsReload

\* Comments on a loaded feed and a loaded post.
NextComments ==
    \/ FetchPostsStart
    \/ FetchPostStart
    \/ AddCommentStart
    \/ DeleteCommentStart
    \/ FeedDone

\* The feed, a user's feed and a search loaded side by side, with likes and
\* comments on their posts.
NextCache ==
    \/ FetchPostsStart
    \/ FetchUserPostsStart
    \/ SearchPostsStart
    \/ ToggleLikeStart
    \/ AddCommentStart
    \/ DeleteCommentStart
    \/ FeedDone
    \/ SearchDone

NextSearch ==
    \/ SearchPostsStart
    \/ LoadMoreSkipped
    \/ LoadMoreStart
    \/ SearchDone
    \/ ClearSearchResults
    \/ FetchPostsStart
    \/ FeedDone

(***************************************************************************)
(* The middleware (src/middleware.ts).  A pathname is the sequence of its  *)
(* pieces, cut so that every prefix the code tests ends between two        *)
(* pieces: "/auth/login" is <<"/", "auth", "/", "login">>.                 *)
(***************************************************************************)

Root == <<"/">>

LoginPath == <<"/", "auth", "/", "login">>

\* const publicRoutes
PublicRoutes ==
    { <<"/", "auth", "/", page>> :
          page \in {"login", "signup", "forgot-password", "reset-password",
                    "verify-email"} }

\* const publicApiRoutes
PublicApiRoutes ==
    { <<"/", "api", "/", "auth", "/", "login">>,
      <<"/", "api", "/", "auth", "/", "register">>,
      <<"/", "api", "/", "auth", "/", "password", "/", "reset-request">>,
      <<"/", "api", "/", "auth", "/", "password", "/", "reset-complete">>,
      <<"/", "api", "/", "auth", "/", "email", "/", "verify">>,
      <<"/", "api", "/", "auth", "/", "health">> }

\* String.prototype.includes, for one piece
Includes(pathname, piece) == \E i \in DOMAIN pathname : pathname[i] = piece

\* isPublicRoute(pathname)
IsPublicRoute(pathname) ==
    \/ \E route \in PublicRoutes : StartsWith(pathname, route)
    \/ \E route \in PublicApiRoutes : StartsWith(pathname, route)

\* The paths the middleware lets through unseen: static files and Next.js
\* internals.
IsStaticPath(pathname) ==
    \/ StartsWith(pathname, <<"/", "_next", "/">>)
    \/ StartsWith(pathname, <<"/", "api", "/", "_next", "/">>)
    \/ Includes(pathname, ".")
    \/ StartsWith(pathname, <<"/", "favicon", ".", "ico">>)

\* isAuthenticated(request): !!request.cookies.get('auth_token')?.value
\* (Null: no cookie; "": a cookie without a value).
HasToken(token) == token # Null /\ token # ""

\* config.matcher '/((?!api|_next/static|_next/image|favicon.ico|.*\..*$).*)':
\* the paths Next.js runs the middleware for.
Matcher(pathname) ==
    /\ StartsWith(pathname, Root)
    /\ LET rest == Tail(pathname)
       IN  /\ ~StartsWith(rest, <<"api">>)
           /\ ~StartsWith(rest, <<"_next", "/", "static">>)
           /\ ~StartsWith(rest, <<"_next", "/", "image">>)
           /\ ~StartsWith(rest, <<"favicon", ".", "ico">>)
           /\ ~Includes(rest, ".")

\* NextResponse.next()
PassThrough == [kind |-> "next", to |-> <<>>, redirect |-> <<>>]

\* NextResponse.redirect(url), with the redirect search parameter if set
Redirect(to, param) == [kind |-> "redirect", to |-> to, redirect |-> param]

\* A gate that sends nobody away from the protected routes.
Middleware_NoGate(pathname, token) ==
    IF IsPublicRoute(pathname) /\ HasToken(token)
          /\ StartsWith(pathname, <<"/", "auth", "/">>)
    THEN Redirect(Root, <<>>)
    ELSE PassThrough

\* middleware(request)
Middleware(pathname, token) ==
    IF IsStaticPath(pathname) THEN PassThrough
    ELSE IF IsPublicRoute(pathname)
    THEN IF HasToken(token) /\ StartsWith(pathname, <<"/", "auth", "/">>)
         THEN Redirect(Root, <<>>)
         ELSE PassThrough
    ELSE IF ~HasToken(token) THEN Redirect(LoginPath, pathname)
    ELSE PassThrough

\* What a request gets from Next.js: the middleware's answer where the
\* matcher selects the path, the route itself elsewhere.
Gate(pathname, token) ==
    IF Matcher(pathname) THEN Middleware(pathname, token) ELSE PassThrough

\* Pathnames of requests: pages, auth pages, API routes, static files.
GatePaths ==
    { Root,
      <<"/", "profile">>,
      <<"/", "search">>,
      <<"/", "upload">>,
      <<"/", "post", "/", "p1">>,
      <<"/", "auth">>,
      LoginPath,
      <<"/", "auth", "/", "forgot-password">>,
      <<"/", "auth", "/", "reset-password">>,
      <<"/", "auth", "/", "verify-email">>,
      <<"/", "api", "/", "auth", "/", "register">>,
      <<"/", "api", "/", "auth", "/", "health">>,
      <<"/", "api", "/", "auth", "/", "password", "/", "reset-request">>,
      <<"/", "api", "/", "_next", "/", "chunk">>,
      <<"/", "auth", "/", "login", "/", "help">>,
      <<"/", "auth", "/", "signup">>,
      <<"/", "auth", "/", "account">>,
      <<"/", "api", "/", "auth", "/", "login">>,
      <<"/", "api", "/", "auth", "/", "me">>,
      <<"/", "api", "/", "posts">>,
      <<"/", "api", "ary">>,
      <<"/", "_next", "/", "static", "/", "chunk">>,
      <<"/", "_next", "/", "data">>,
      <<"/", "logo", ".", "png">>,
      <<"/", "auth", "/", "login", ".", "css">>,
      <<"/", "favicon", ".", "ico">> }

\* Values of the auth_token cookie of a request.
GateTokens == {Null, "", "t1", "t2"}

GateDecision(pathname, token) ==
    [pathname |-> pathname, token |-> token, matched |-> Matcher(pathname),
     response |-> Gate(pathname, token)]

NoGateDecision ==
    [pathname |-> <<>>, token |-> Null, matched |-> FALSE, response |-> PassThrough]

(***************************************************************************)
(* The browser: requests pass the middleware, a document load creates the  *)
(* stores anew, AuthProvider calls checkAuthStatus once per document, and  *)
(* the wrapper of a protected page redirects from its effect.              *)
(***************************************************************************)

\* The pathname of window.location.pathname, and back.
PathOf(path) == IF path = "/auth/login" THEN LoginPath ELSE Root

LocationOf(pathname) == IF pathname = LoginPath THEN "/auth/login" ELSE "/"

\* The wrappers of a protected page: ProtectedRoute redirects with
\* router.push, withAuth with window.location.href.
Guards == {"ProtectedRoute", "withAuth"}

\* at: the path of the page shown (Null while a document is being
\* fetched); push: a router.push('/auth/login') is under way; mounted: the
\* effects of the document's first render have run; seen: the
\* <<isAuthenticated, isLoading>> the wrapper's effect ran with last;
\* guard: the wrapper of the page at "/".
Browser(at, push, mounted, seen, guard) ==
    [at |-> at, push |-> push, mounted |-> mounted, seen |-> seen, guard |-> guard]

\* The dependencies of the wrapper's effect.
GuardDeps(state) == <<state.isAuthenticated, state.isLoading>>

\* if (!isLoading && !isAuthenticated) in the wrapper's effect
GuardRedirects(state) == ~state.isLoading /\ ~state.isAuthenticated

InitNav ==
    /\ gate = NoGateDecision
    /\ nav = Browser("/auth/login", FALSE, TRUE, <<>>, "ProtectedRoute")

NavFrame == UNCHANGED <<apiVars, dbVars, stVars, svcVars, psVars>>

\* Some client asks for a path with some auth_token cookie.
GateRequest ==
    \E pathname \in GatePaths, token \in GateTokens :
        /\ gate' = GateDecision(pathname, token)
        /\ UNCHANGED <<nav, authVars>>
        /\ NavFrame

\* The page at the address bar is shown, its effects have run with the
\* store as it is, and no navigation is under way: nothing moves until the
\* user acts or a response arrives.
NavSettled ==
    /\ nav.at = location
    /\ ~nav.push
    /\ nav.mounted
    /\ location = "/" => nav.seen = GuardDeps(auth)

\* The user opens a URL of the app (or reloads the page) when the browser
\* has come to rest.
NavVisit ==
    \E path \in Paths, guard \in Guards :
        /\ NavSettled
        /\ location' = path
        /\ nav' = Browser(Null, FALSE, nav.mounted, nav.seen, guard)
        /\ authLast' = Last("sync", "navigate", "void", NoOutcome)
        /\ UNCHANGED <<auth, authStorage, cookies, calls, gate>>
        /\ NavFrame

\* The request of a document navigation is answered with a redirect, which
\* the browser follows.
NavRedirect ==
    LET decision == GateDecision(PathOf(location), cookies.auth_token)
    IN  /\ nav.at # location
        /\ decision.response.kind = "redirect"
        /\ gate' = decision
        /\ location' = LocationOf(decision.response.to)
        /\ nav' = [nav EXCEPT !.at = Null]
        /\ authLast' = Last("sync", "navigate", "void", NoOutcome)
        /\ UNCHANGED <<auth, authStorage, cookies, calls>>
        /\ NavFrame

\* The request of a document navigation passes the middleware and the
\* document loads: the store is created anew and rehydrated, the actions
\* that were waiting are gone.
NavLoad ==
    LET decision == GateDecision(PathOf(location), cookies.auth_token)
    IN  /\ nav.at # location
        /\ decision.response.kind = "next"
        /\ gate' = decision
        /\ auth' = Rehydrated(authStorage)
        /\ authStorage' = Partialize(Rehydrated(authStorage))
        /\ calls' = EmptyBag
        /\ nav' = Browser(location, FALSE, FALSE, <<>>, nav.guard)
        /\ authLast' = Last("reload", "none", "void", NoOutcome)
        /\ UNCHANGED <<cookies, location>>
        /\ NavFrame

\* What the wrapper's effect does when it runs with the store as rendered:
\* the navigation it starts, if any.
GuardEffect(state, seen) ==
    IF location = "/" /\ GuardRedirects(state)
    THEN IF nav.guard = "withAuth"
         THEN /\ location' = "/auth/login"
              /\ nav' = Browser(Null, FALSE, TRUE, seen, nav.guard)
         ELSE /\ location' = location
              /\ nav' = Browser(nav.at, TRUE, TRUE, seen, nav.guard)
    ELSE /\ location' = location
         /\ nav' = Browser(nav.at, nav.push, TRUE, seen, nav.guard)

\* The effects of the first render: the wrapper's effect (the child's),
\* then AuthProvider's, which calls checkAuthStatus().
NavMount ==
    /\ nav.at = location
    /\ ~nav.mounted
    /\ GuardEffect(auth, GuardDeps(auth))
    /\ IF CheckAuthStatusGuard(auth)
       THEN /\ UNCHANGED <<auth, authStorage, calls>>
            /\ authLast' = Last("sync", "checkAuthStatus", "void", NoOutcome)
       ELSE IF cookies.auth_token # Null
       THEN /\ StoreSet(LoadingPatch)
            /\ Suspend(Call("getCurrentUser", "checkAuthStatus"))
            /\ authLast' = Last("start", "checkAuthStatus", "void", NoOutcome)
       ELSE /\ StoreSet(NoTokenPatch)
            /\ UNCHANGED calls
            /\ authLast' = Last("done", "checkAuthStatus", "void", NoOutcome)
    /\ UNCHANGED <<cookies, gate>>
    /\ NavFrame

\* isAuthenticated or isLoading changed: the wrapper renders again and its
\* effect runs.
NavGuard ==
    /\ nav.at = location
    /\ nav.mounted
    /\ location = "/"
    /\ nav.seen # GuardDeps(auth)
    /\ GuardEffect(auth, GuardDeps(auth))
    /\ authLast' = Last("sync", "navigate", "void", NoOutcome)
    /\ UNCHANGED <<auth, authStorage, cookies, calls, gate>>
    /\ NavFrame

\* router.push('/auth/login'): the router's request passes the middleware
\* and the login page is shown by the same document, or it is redirected
\* to "/", the page it came from, whose wrapper the router keeps or mounts
\* again.
NavPush ==
    LET decision == GateDecision(LoginPath, cookies.auth_token)
    IN  /\ nav.at = location
        /\ nav.push
        /\ gate' = decision
        /\ IF decision.response.kind = "next"
           THEN /\ location' = "/auth/login"
                /\ nav' = Browser("/auth/login", FALSE, TRUE, <<>>, nav.guard)
           ELSE /\ location' = LocationOf(decision.response.to)
                /\ \E remount \in BOOLEAN :
                       nav' = Browser(LocationOf(decision.response.to), FALSE, TRUE,
                                      IF remount THEN <<>> ELSE nav.seen, nav.guard)
        /\ authLast' = Last("sync", "navigate", "void", NoOutcome)
        /\ UNCHANGED <<auth, authStorage, cookies, calls>>
        /\ NavFrame

\* The user clears the site's localStorage.
NavClearStorage ==
    /\ NavSettled
    /\ authStorage # Partialize(InitialAuth)
    /\ authStorage' = Partialize(InitialAuth)
    /\ authLast' = Last("sync", "clearStorage", "void", NoOutcome)
    /\ UNCHANGED <<auth, cookies, location, calls, navVars>>
    /\ NavFrame

\* The cookies expire (they are set for 24 hours).
NavCookiesExpire ==
    /\ NavSettled
    /\ cookies # NoCookies
    /\ cookies' = NoCookies
    /\ authLast' = Last("sync", "cookiesExpire", "void", NoOutcome)
    /\ UNCHANGED <<auth, authStorage, location, calls, navVars>>
    /\ NavFrame

\* login(credentials) is called while the login page is shown.
NavLogin ==
    /\ NavSettled
    /\ location = "/auth/login"
    /\ calls = EmptyBag
    /\ LoginStart

\* A step the browser or the app takes by itself.
NavAutomatic ==
    \/ NavRedirect
    \/ NavLoad
    \/ NavMount
    \/ NavGuard
    \/ NavPush

NextBrowse ==
    \/ NavVisit
    \/ NavAutomatic
    \/ GetCurrentUserDone
    \/ NavLogin
    \/ LoginDone
    \/ NavClearStorage
    \/ NavCookiesExpire

Init == InitApi /\ InitDb /\ InitAuth /\ InitSvc /\ InitPs /\ InitNav

SpecApi == Init /\ [][NextApi]_vars

(***************************************************************************)
(* Claims about the routes.                                                *)
(***************************************************************************)

Registered ==
    /\ apiResp.status = 201
    /\ DOMAIN apiResp.body.user = {"id", "email", "name"}
    /\ StartsWith(apiResp.body.user.id, UserIdPrefix)
    /\ apiResp.body.user.email = apiReq.email
    /\ apiResp.body.user.name = Trim(apiReq.name)

\* C1 as stated: every registration payload whose email matches
\* \S+@\S+\.\S+, whose password has length >= 6 and whose name has length
\* >= 2 is answered 201 with a user object of id, email and name and no
\* password.
C1_RegisterValidAsStated ==
    (/\ apiReq.route = "register"
     /\ apiReq.parseOk
     /\ EmailRegexTest(apiReq.email)
     /\ Len(apiReq.password) >= MinPasswordLen
     /\ Len(apiReq.name) >= MinNameLen)
    => Registered

C1_Valid ==
    /\ apiReq.route = "register"
    /\ apiReq.parseOk
    /\ EmailRegexTest(apiReq.email)
    /\ Len(apiReq.password) >= MinPasswordLen
    /\ Len(Trim(apiReq.name)) >= MinNameLen
    /\ (apiReq.phone = <<>> \/ PhoneRegexTest(apiReq.phone))
    /\ apiReq.email # ExistingEmail

\* C1 amended: every registration payload whose email matches \S+@\S+\.\S+
\* and is not existing@example.com, whose password has length >= 6, whose
\* name has length >= 2 after trimming, and whose phone is absent or matches
\* ^\+?[\d\s\-\(\)]+$ is answered 201 with a user object of exactly id,
\* email and (trimmed) name, and no password.
C1_RegisterValid == C1_Valid => Registered

\* A valid registration with a phone number and a name that trim shortens.
C1_Witness ==
    /\ C1_Valid
    /\ apiReq.phone # <<>>
    /\ Trim(apiReq.name) # apiReq.name
    /\ apiResp.status = 201

LoggedIn ==
    /\ apiResp.status = 200
    /\ StartsWith(apiResp.body.token, MockTokenPrefix)
    /\ StartsWith(apiResp.body.sessionId, SessionPrefix)

IsDemoLogin ==
    /\ apiReq.route = "login"
    /\ apiReq.parseOk
    /\ apiReq.email = DemoEmail
    /\ apiReq.password = DemoPassword

\* C2 as stated: a login with demo@example.com / password123 is answered 200
\* with a token prefixed mock_jwt_token_ and a sessionId prefixed session_;
\* a login with any other credential pair is answered 401.
C2_LoginAsStated ==
    /\ IsDemoLogin => LoggedIn
    /\ (apiReq.route = "login" /\ apiReq.parseOk /\ ~IsDemoLogin)
       => apiResp.status = 401

\* C2 amended: a login with demo@example.com / password123 is answered 200
\* with a token prefixed mock_jwt_token_ and a sessionId prefixed session_;
\* a login with any other pair of a non-empty password and a non-empty
\* email that matches \S+@\S+\.\S+ is answered 401 (a missing field or a
\* malformed email is answered 400), and never with a token.
C2_Login ==
    /\ IsDemoLogin => LoggedIn
    /\ (/\ apiReq.route = "login"
        /\ apiReq.parseOk
        /\ ~IsDemoLogin
        /\ apiReq.email # <<>>
        /\ apiReq.password # <<>>
        /\ EmailRegexTest(apiReq.email))
       => apiResp.status = 401
    /\ (apiReq.route = "login" /\ apiReq.parseOk /\ ~IsDemoLogin)
       => (apiResp.status \in {400, 401} /\ "token" \notin DOMAIN apiResp.body)

\* The demo email with a wrong password, refused.
C2_Witness ==
    /\ apiReq.route = "login"
    /\ apiReq.parseOk
    /\ apiReq.email = DemoEmail
    /\ apiReq.password \notin {<<>>, DemoPassword}
    /\ apiResp.status = 401

\* C3: GET /api/auth/me answers a request with no Authorization header, or
\* one that does not start with 'Bearer ', with 401 and the body
\* {error: "Authorization token is required"}, and returns no user data.
C3_MeRequiresBearer ==
    (/\ apiReq.route = "me"
     /\ ~StartsWith(apiReq.authorization, BearerPrefix))
    => /\ apiResp.status = 401
       /\ apiResp.body = [error |-> "Authorization token is required"]

\* A request whose header carries a well-formed mock token without the
\* 'Bearer ' scheme, refused.
C3_Witness ==
    /\ apiReq.route = "me"
    /\ apiReq.authorization # <<>>
    /\ ~StartsWith(apiReq.authorization, BearerPrefix)
    /\ Len(apiReq.authorization) > BearerLen
    /\ apiResp.status = 401

(***************************************************************************)
(* Claims about the mock data stores.                                      *)
(***************************************************************************)

\* C4: toggleLike(postId, userId) called twice in a row for the same post
\* and user returns the post's likes_count and the user's liked state to
\* what they were before the first call; the first call returns the
\* negation of the prior liked state, the second the prior state.
C4_ToggleLikeTwice ==
    (dbLast.op = "toggleLike" /\ dbLast.second)
    => /\ dbLast.firstResult = ~dbLast.likedBefore
       /\ dbLast.result = dbLast.likedBefore
       /\ HasJoin(dbLikes, dbLast.postId, dbLast.userId) = dbLast.likedBefore
       /\ LikesCountOf(dbPosts, dbLast.postId) = dbLast.countBefore

\* Two calls in a row on an existing post that the user liked before, made
\* while other like records are stored.
C4_Witness ==
    /\ dbLast.op = "toggleLike"
    /\ dbLast.second
    /\ dbLast.likedBefore
    /\ dbLast.countBefore > 0
    /\ Len(dbLikes) >= 2

\* C5: createPost(data) followed by getPostById(newId) returns (not null,
\* not an exception) a post whose input fields equal the input and whose
\* three counts are zero; the new id differs from every existing post id.
C5_CreateThenGet ==
    dbLast.op = "createPost"
    => LET got == GetPostById(dbLast.result.id)
       IN  /\ dbLast.result.id \notin dbLast.idsBefore
           /\ got.kind = "post"
           /\ got.post.user_id = dbLast.postData.user_id
           /\ got.post.caption = dbLast.postData.caption
           /\ got.post.location = dbLast.postData.location
           /\ got.post.likes_count = 0
           /\ got.post.comments_count = 0
           /\ got.post.views_count = 0

\* The comments of post k of the simple store.
StComments(posts, k) == posts[k].comments

\* C6: adding a comment to an existing post raises that post's comment
\* count by exactly 1 and appends exactly one comment record, by the
\* current mock user and with an id unique within the post; no other post
\* changes; for a non-existent post nothing changes.
C6_AddCommentStep ==
    /\ (dbOps' = dbOps + 1 /\ dbLast'.op = "createComment")
       => LET pid == dbLast'.commentData.post_id
              k == FindIndex(dbPosts, LAMBDA p : p.id = pid)
          IN  IF k = 0
              THEN UNCHANGED <<dbPosts, dbComments>>
              ELSE /\ Len(dbComments') = Len(dbComments) + 1
                   /\ SubSeq(dbComments', 1, Len(dbComments)) = dbComments
                   /\ dbComments'[Len(dbComments')].post_id = pid
                   /\ \A i \in 1..Len(dbComments) :
                          dbComments[i].id # dbComments'[Len(dbComments')].id
                   /\ dbPosts'[k].comments_count = dbPosts[k].comments_count + 1
                   /\ \A j \in 1..Len(dbPosts) :
                          j # k => dbPosts'[j] = dbPosts[j]
    /\ (dbOps' = dbOps + 1 /\ dbLast'.op = "addComment")
       => LET k == FindIndex(stPosts, LAMBDA p : p.id = dbLast'.postId)
          IN  IF k = 0
              THEN UNCHANGED stPosts /\ dbLast'.result = 0
              ELSE LET old == StComments(stPosts, k)
                       new == StComments(stPosts', k)
                   IN  /\ Len(new) = Len(old) + 1
                       /\ SubSeq(new, 1, Len(old)) = old
                       /\ new[Len(new)].username = stCurrentUser
                       /\ \A i \in 1..Len(old) : old[i].id # new[Len(new)].id
                       /\ \A j \in 1..Len(stPosts) :
                              j # k => stPosts'[j] = stPosts[j]

C6_AddComment == [][C6_AddCommentStep]_vars

NoDuplicateJoin(joins) ==
    \A i, j \in 1..Len(joins) :
        (joins[i].post_id = joins[j].post_id /\ joins[i].user_id = joins[j].user_id)
        => i = j

\* C7: in every reachable state there is at most one Like record and at
\* most one SavedPost record per (postId, userId), in the mock database and
\* in the simple store's list of saved post ids.
C7_JoinRecordsUnique ==
    /\ NoDuplicateJoin(dbLikes)
    /\ NoDuplicateJoin(dbSavedPosts)
    /\ \A i, j \in 1..Len(stSavedPosts) :
           stSavedPosts[i] = stSavedPosts[j] => i = j

\* Likes were removed and added again, so that two like records of
\* different pairs carry the same id, and a post is saved.
C7_Witness ==
    /\ \E i, j \in 1..Len(dbLikes) : i # j /\ dbLikes[i].id = dbLikes[j].id
    /\ stSavedPosts # <<>>

\* likes_count a post had when it entered the posts array.
InitialLikesCount(postId) == IF postId = 1 THEN SeedLikesCount ELSE 0

\* C8: after any sequence of toggleLike calls on existing posts, each
\* post's likes_count differs from its initial value by exactly the number
\* of Like records stored for that post.
C8_LikesCountTracksRecords ==
    ~dbOrphanLike
    => \A k \in 1..Len(dbPosts) :
           dbPosts[k].likes_count - InitialLikesCount(dbPosts[k].id)
           = Cardinality({i \in 1..Len(dbLikes) :
                              dbLikes[i].post_id = dbPosts[k].id})

\* This step is a call of the data-store function op.
DbCalled(op) == dbLast'.op = op /\ dbOps' = dbOps + 1

\* The pairs of a post id and a user id other than the one of the call.
OtherPairs ==
    { pair \in (LikePostInputs \cup SavePostInputs) \X LikeUserInputs :
          pair # <<dbLast'.postId, dbLast'.userId>> }

C25_ToggleStep ==
    /\ DbCalled("toggleLike")
       => /\ \A pair \in OtherPairs :
                 HasJoin(dbLikes', pair[1], pair[2]) = HasJoin(dbLikes, pair[1], pair[2])
          /\ \A k \in 1..Len(dbPosts) :
                 dbPosts[k].id # dbLast'.postId
                 => dbPosts'[k].likes_count = dbPosts[k].likes_count
          /\ dbSavedPosts' = dbSavedPosts
    /\ DbCalled("toggleSavedPost")
       => /\ \A pair \in OtherPairs :
                 HasJoin(dbSavedPosts', pair[1], pair[2])
                 = HasJoin(dbSavedPosts, pair[1], pair[2])
          /\ dbLikes' = dbLikes
          /\ dbPosts' = dbPosts

\* C25: toggleLike(p, u) and toggleSavedPost(p, u) leave the liked and the
\* saved state of every other pair (p', u') as it was, and toggleLike
\* leaves likes_count of every post other than p as it was.
C25_ToggleAffectsOnePair == [][C25_ToggleStep]_vars

(***************************************************************************)
(* Claims about the auth store.                                            *)
(***************************************************************************)

Anonymous(state) ==
    /\ state.user = Null
    /\ state.token = Null
    /\ ~state.isAuthenticated

\* This step is the continuation of a login whose response arrived.
LoginResolves ==
    /\ BagIn(Call("login", "direct"), calls)
    /\ calls' = calls (-) SetToBag({Call("login", "direct")})
    /\ authLast'.step = "done"
    /\ authLast'.op = "login"

C9_LoginStep ==
    (LoginResolves /\ Anonymous(auth))
    => IF authLast'.outcome.kind = "ok"
       THEN /\ auth'.user = authLast'.outcome.data.user
            /\ auth'.token = authLast'.outcome.data.token
            /\ auth'.sessionId = authLast'.outcome.data.sessionId
            /\ auth'.isAuthenticated
            /\ ~auth'.isLoading
            /\ auth'.error = Null
            /\ authLast'.ret = "true"
       ELSE /\ auth'.error # Null
            /\ ~auth'.isLoading
            /\ ~auth'.isAuthenticated
            /\ auth'.user = auth.user
            /\ auth'.token = auth.token
            /\ authLast'.ret = "false"

\* C9: a login whose response reaches the store in the anonymous state
\* ends, when the service returns data, with user, token and sessionId
\* taken from the response, isAuthenticated true, isLoading false, error
\* null, returning true; and, when the service returns an error (or a 2xx
\* with no body), with a non-null error, isLoading false, isAuthenticated
\* still false, user and token unchanged, returning false.
C9_Login == [][C9_LoginStep]_vars

\* A login refused with 401 on the login page: the error is stored and the
\* store is still anonymous.
C9_Witness ==
    /\ authLast.step = "done"
    /\ authLast.op = "login"
    /\ authLast.outcome.status = 401
    /\ authLast.ret = "false"
    /\ auth.error = "Unauthorized"
    /\ Anonymous(auth)

\* C10 as stated: in every reachable state, isAuthenticated = true implies
\* that user and token held in the store are both non-null.
C10_AuthenticatedHoldsUserAndToken ==
    auth.isAuthenticated => (auth.user # Null /\ auth.token # Null)

\* C10 amended: in every reachable state, isAuthenticated = true implies
\* that the user held in the store is non-null; the token may be null,
\* because it is not persisted and getCurrentUser does not set it.
C10_AuthenticatedHoldsUser ==
    auth.isAuthenticated => auth.user # Null

\* After a reload the store is authenticated from the persisted snapshot,
\* with a user and without a token.
C10_Witness ==
    /\ authLast.step = "reload"
    /\ auth.isAuthenticated
    /\ auth.user # Null
    /\ auth.token = Null

\* The values token and sessionId can take in the store.
TokenValues == {Null} \cup { d.token : d \in LoginData }

SessionValues == {Null} \cup { d.sessionId : d \in LoginData }

\* C13: the persisted snapshot holds user and isAuthenticated only: it is
\* the same for every store state that differs from the current one in
\* token / sessionId only; and after a reload the rehydrated store has
\* token = null and sessionId = null.
C13_SnapshotHidesToken ==
    /\ DOMAIN authStorage = {"user", "isAuthenticated"}
    /\ \A t \in TokenValues, sid \in SessionValues :
           Partialize([auth EXCEPT !.token = t, !.sessionId = sid]) = authStorage
    /\ authLast.step = "reload" => (auth.token = Null /\ auth.sessionId = Null)

\* A reload after a login: the token cookie is still there, the store is
\* authenticated from the snapshot and holds no token.
C13_Witness ==
    /\ authLast.step = "reload"
    /\ cookies.auth_token # Null
    /\ authStorage.isAuthenticated
    /\ auth.token = Null
    /\ auth.sessionId = Null

UpdateProfileCall == Call("updateProfile", "direct")

RefetchCall == Call("getCurrentUser", "updateProfile")

\* This step ends a call of updateProfile (it returns to its caller).
UpdateProfileCompletes ==
    /\ authLast'.step = "done"
    /\ authLast'.op = "updateProfile"
    /\ BagCardinality(calls') < BagCardinality(calls)

\* This step is the arrival of the profile service's response.
ProfileServiceResolves ==
    /\ authLast'.step # "reload"
    /\ CopiesIn(UpdateProfileCall, calls') < CopiesIn(UpdateProfileCall, calls)

\* The step that ends the call is the arrival of the re-fetch's response.
EndsWithRefetch ==
    /\ BagIn(RefetchCall, calls)
    /\ calls' = calls (-) SetToBag({RefetchCall})

C12_AsStatedStep ==
    /\ UpdateProfileCompletes => EndsWithRefetch
    /\ auth'.user \notin ProfileInputs

\* C12 as stated: every call of updateProfile re-fetches the current user
\* before it completes, and the store's user is never written from the
\* request data.
C12_UpdateProfileAlwaysRefetches == [][C12_AsStatedStep]_vars

C12_Step ==
    /\ ProfileServiceResolves
       => IF authLast'.outcome \in ErrorOutcomes
          THEN /\ UpdateProfileCompletes
               /\ authLast'.ret = "false"
               /\ CopiesIn(RefetchCall, calls') = CopiesIn(RefetchCall, calls)
               /\ auth'.error = HandleError(authLast'.outcome)
               /\ ~auth'.isLoading
               /\ auth'.user = auth.user
          ELSE /\ ~UpdateProfileCompletes
               /\ CopiesIn(RefetchCall, calls') = CopiesIn(RefetchCall, calls) + 1
               /\ auth'.user = auth.user
    /\ UpdateProfileCompletes
       => \/ EndsWithRefetch /\ authLast'.ret = "true"
          \/ ProfileServiceResolves /\ authLast'.ret = "false"
    /\ auth'.user \notin ProfileInputs

\* C12 amended: when the profile service answers without an error (2xx,
\* with or without a body) updateProfile re-fetches the current user and
\* returns true only when that re-fetch has resolved; when the service
\* answers with an error it stores the error, returns false and does not
\* re-fetch; the store's user is never written from the request data.
C12_UpdateProfile == [][C12_Step]_vars

\* updateProfile returned true after its re-fetch brought a user.
C12_Witness ==
    /\ authLast.step = "done"
    /\ authLast.op = "updateProfile"
    /\ authLast.ret = "true"
    /\ authLast.outcome.kind = "ok"
    /\ auth.user # Null

\* This step is a call of checkAuthStatus (not the arrival of a response).
CheckAuthStatusCalled ==
    /\ authLast'.op = "checkAuthStatus"
    /\ authLast'.outcome = NoOutcome

C11_CheckAuthStatusStep ==
    (CheckAuthStatusCalled /\ auth.isLoading)
    => UNCHANGED <<auth, authStorage, cookies, location, calls>>

\* C11: a call of checkAuthStatus made while isLoading is true issues no
\* request and changes no field of the auth store (nor the persisted
\* snapshot, the cookies or the location).
C11_CheckAuthStatusGuarded == [][C11_CheckAuthStatusStep]_vars

\* checkAuthStatus returned at once while a login was waiting for its
\* response.
C11_Witness ==
    /\ authLast.step = "skip"
    /\ authLast.op = "checkAuthStatus"
    /\ auth.isLoading
    /\ BagIn(Call("login", "direct"), calls)

(***************************************************************************)
(* Claims about the service layer.                                         *)
(***************************************************************************)

\* This step is a call of a service method.
SvcCallStep == svcLast.service = "none" /\ svcLast'.service # "none"

C14_AsStatedStep ==
    (SvcCallStep /\ Is401(svcLast'.response))
    => /\ cookies' = NoCookies
       /\ location' = "/auth/login"
       /\ IsSet(svcLast'.result, "error")

C14_Step ==
    (SvcCallStep /\ Is401(svcLast'.response))
    => /\ IsSet(svcLast'.result, "error")
       /\ ~IsSet(svcLast'.result, "data")
       /\ IF \/ svcLast'.service \in {"auth", "posts", "likes", "comments"}
             \/ svcLast'.service = "apiClient" /\ svcLast'.response.body # "none"
          THEN cookies' = NoCookies /\ location' = "/auth/login"
          ELSE cookies' = cookies /\ location' = location

C15_ResultHasDataOrError ==
    svcLast.service \in {"auth", "posts", "likes", "comments", "search"}
    => /\ DOMAIN svcLast.result \subseteq {"data", "error"}
       /\ IsSet(svcLast.result, "data") # IsSet(svcLast.result, "error")

\* A search parameter was provided: it is there and it is not empty.
Provided(v) == v.type # "undefined" /\ v.len > 0

\* C16: searchPosts(params) with none of tags, location, city, country
\* provided returns the validation error without issuing a request; with
\* at least one of them provided it issues exactly one GET to /search.
C16_SearchNeedsParameter ==
    (svcLast.service = "search" /\ svcLast.method = "searchPosts")
    => IF \/ Provided(svcLast.params.tags)
          \/ Provided(svcLast.params.location)
          \/ Provided(svcLast.params.city)
          \/ Provided(svcLast.params.country)
       THEN /\ svcLast.requests = 1
            /\ svcLast.url = "GET /search"
       ELSE /\ svcLast.requests = 0
            /\ svcLast.result = [error |-> SearchValidationError]

(***************************************************************************)
(* Claims about the posts store.                                           *)
(***************************************************************************)

\* This step is the continuation of the action op, whose response arrived.
PsResolves(op) ==
    /\ psLast'.step = "done"
    /\ psLast'.call.op = op
    /\ psLast'.call \in psCalls
    /\ psLast'.call \notin psCalls'

\* The service answered with data (a 2xx response with a body).
PsSucceeded == IsSet(PsResult(psLast'.call.op, psLast'.outcome), "data")

\* posts' is posts with Change applied to the posts of id postId.
PostsChanged(old, new, postId, Change(_)) ==
    /\ Len(new) = Len(old)
    /\ \A i \in DOMAIN old :
           new[i] = IF old[i].id = postId THEN Change(old[i]) ELSE old[i]

CurrentPostChanged(old, new, postId, Change(_)) ==
    new = IF old.id = postId THEN Change(old) ELSE old

C17_ToggleLikeStep ==
    PsResolves("toggleLike")
    => LET postId == psLast'.call.postId
           data == psLast'.outcome.data
           Reported(post) == [post EXCEPT !.likesCount = data.likesCount]
       IN  IF PsSucceeded
           THEN /\ PostsChanged(ps.posts, ps'.posts, postId, Reported)
                /\ CurrentPostChanged(ps.currentPost, ps'.currentPost, postId, Reported)
                /\ (postId \in Members(ps'.likedPosts)) = data.isLiked
                /\ \A other \in PostIds \ {postId} :
                       (other \in Members(ps'.likedPosts)) = (other \in Members(ps.likedPosts))
                /\ psLast'.ret = "true"
           ELSE /\ ps'.likedPosts = ps.likedPosts
                /\ ps'.posts = ps.posts
                /\ ps'.currentPost = ps.currentPost
                /\ ps'.userPosts = ps.userPosts
                /\ ps'.searchResults = ps.searchResults
                /\ ps'.likesError # Null
                /\ psLast'.ret = "false"

\* C17: when toggleLike's service call succeeds, the likesCount of the post
\* in posts and in currentPost becomes the count the server reported, and
\* postId is in likedPosts exactly if the server reported isLiked; when it
\* fails, likedPosts and all counts stay as they were and likesError is set.
C17_ToggleLike == [][C17_ToggleLikeStep]_vars

\* The post is in the feed and is the current post; the server reported it
\* liked with a count that is not the local count plus one.
C17_Witness ==
    /\ psLast.step = "done"
    /\ psLast.call.op = "toggleLike"
    /\ psLast.outcome.kind = "ok"
    /\ psLast.outcome.body = "data"
    /\ psLast.outcome.data.isLiked
    /\ ps.currentPost.id = psLast.call.postId
    /\ ps.currentPost.likesCount = 7
    /\ \E i \in DOMAIN ps.posts :
           ps.posts[i].id = psLast.call.postId /\ ps.posts[i].likesCount = 7
    /\ psLast.call.postId \in Members(ps.likedPosts)

\* Every field of the store but those named is unchanged in this step.
PsOnlyChanges(fields) == \A k \in DOMAIN ps \ fields : ps'[k] = ps[k]

C18_CommentStep ==
    /\ PsResolves("addComment")
       => LET postId == psLast'.call.postId
              Counted(post) == [post EXCEPT !.commentsCount = @ + 1]
          IN  IF PsSucceeded
              THEN /\ PostsChanged(ps.posts, ps'.posts, postId, Counted)
                   /\ CurrentPostChanged(ps.currentPost, ps'.currentPost, postId, Counted)
                   /\ ps'.comments[postId]
                          = <<psLast'.outcome.data.comment>> \o ps.comments[postId]
                   /\ \A other \in PostIds \ {postId} :
                          ps'.comments[other] = ps.comments[other]
                   /\ psLast'.ret = "true"
              ELSE /\ PsOnlyChanges({"commentsError", "commentsLoading"})
                   /\ ps'.commentsError # Null
                   /\ psLast'.ret = "false"
    /\ PsResolves("deleteComment")
       => LET postId == psLast'.call.postId
              Counted(post) ==
                  [post EXCEPT !.commentsCount = IF @ > 0 THEN @ - 1 ELSE 0]
          IN  IF PsSucceeded
              THEN /\ PostsChanged(ps.posts, ps'.posts, postId, Counted)
                   /\ CurrentPostChanged(ps.currentPost, ps'.currentPost, postId, Counted)
                   /\ psLast'.call.commentId \notin Range(ps'.comments[postId])
                   /\ ps'.comments[postId]
                          = Without(ps.comments[postId], psLast'.call.commentId)
                   /\ \A other \in PostIds \ {postId} :
                          ps'.comments[other] = ps.comments[other]
                   /\ psLast'.ret = "true"
              ELSE /\ PsOnlyChanges({"commentsError", "commentsLoading"})
                   /\ ps'.commentsError # Null
                   /\ psLast'.ret = "false"
    /\ \A i \in DOMAIN ps'.posts : ps'.posts[i].commentsCount >= 0

\* C18: when addComment / deleteComment succeeds, the commentsCount of the
\* targeted post (in posts and in currentPost) changes by +1 / by -1 but
\* not below 0, and the comment is prepended to / removed from the cache of
\* that post; when it fails, only commentsError and commentsLoading change.
C18_Comments == [][C18_CommentStep]_vars

\* A second comment was added to a post of the feed: the new comment is in
\* front of the first one and the count went up twice.
C18_Witness ==
    /\ psLast.step = "done"
    /\ psLast.call.op = "addComment"
    /\ psLast.ret = "true"
    /\ Len(ps.comments[psLast.call.postId]) = 2
    /\ ps.comments[psLast.call.postId][1] = psLast.outcome.data.comment
    /\ \E i \in DOMAIN ps.posts :
           ps.posts[i].id = psLast.call.postId /\ ps.posts[i].commentsCount = 2

C19_FetchStep ==
    /\ (PsResolves("fetchPosts") /\ PsSucceeded)
       => /\ ps'.posts = psLast'.outcome.data.posts
          /\ ps'.pagination = psLast'.outcome.data.pagination
    /\ (PsResolves("fetchUserPosts") /\ PsSucceeded)
       => /\ ps'.userPosts = psLast'.outcome.data.posts
          /\ ps'.pagination = psLast'.outcome.data.pagination
    /\ (PsResolves("fetchPost") /\ PsSucceeded)
       => ps'.currentPost = psLast'.outcome.data.post

\* C19: a response of fetchPosts / fetchUserPosts / fetchPost that carries
\* data replaces the list (and the pagination) wholesale, whatever other
\* calls are waiting and whatever the order in which the calls were made:
\* after overlapping calls the list and the pagination are those of the
\* response that arrived last.
C19_LastResponseWins == [][C19_FetchStep]_vars

\* Two fetchPosts calls overlapped and the response of the first one came
\* after that of the second one: the store shows the older call's page.
C19_Witness ==
    /\ psLast.step = "done"
    /\ psLast.call.op = "fetchPosts"
    /\ psLast.outcome.body = "data"
    /\ psLast.call.seq < psLast.appliedBefore
    /\ psApplied.posts = psLast.call.seq
    /\ ps.posts = psLast.outcome.data.posts
    /\ ps.pagination = psLast.outcome.data.pagination

\* This step is a call of loadMoreSearchResults.
LoadMoreCalled ==
    /\ psLast'.call.op = "loadMoreSearchResults"
    /\ psLast'.step \in {"skip", "start"}
    /\ psOps' = psOps + 1

C20_SearchStep ==
    /\ LoadMoreCalled
       => IF ps.searchPagination.isNull \/ ~ps.searchPagination.hasNextPage
          THEN UNCHANGED <<ps, psStorage, psCalls, cookies, location>>
          ELSE /\ psCalls' = psCalls \cup {psLast'.call}
               /\ psLast'.call \notin psCalls
               /\ psLast'.call.page = ps.searchPagination.page + 1
    /\ (PsResolves("loadMoreSearchResults") /\ PsSucceeded)
       => /\ ps'.searchResults
                 = psLast'.call.captured \o psLast'.outcome.data.posts
          /\ ps'.searchPagination = psLast'.outcome.data.pagination
    /\ psLast'.call.op \in {"searchPosts", "loadMoreSearchResults"}
       => /\ ps'.posts = ps.posts
          /\ ps'.pagination = ps.pagination
          /\ ps'.error = ps.error
          /\ ps'.loading = ps.loading

\* C20: loadMoreSearchResults called while searchPagination is null or
\* hasNextPage is false asks for nothing and changes nothing; otherwise it
\* asks the search service for page searchPagination.page + 1, and when
\* that succeeds searchResults becomes the results it had when called
\* followed by the new page; no step of searchPosts or
\* loadMoreSearchResults changes the feed's posts, pagination, error or
\* loading.
C20_LoadMore == [][C20_SearchStep]_vars

\* A second page was appended to the results of a search while the feed
\* was loaded.
C20_Witness ==
    /\ psLast.step = "done"
    /\ psLast.call.op = "loadMoreSearchResults"
    /\ psLast.outcome.body = "data"
    /\ psLast.call.captured # <<>>
    /\ psLast.call.page = 2
    /\ ps.searchResults = psLast.call.captured \o psLast.outcome.data.posts
    /\ ps.posts # <<>>

\* Every Set of post ids, in every insertion order.
LikedSets ==
    { JsSet(seq) : seq \in { q \in UNION { [1..n -> PostIds] : n \in 0..Cardinality(PostIds) } :
                                Dedup(q) = q } }

\* The store a page load makes of what persist stored for a state.
PsRoundTrip(state) == PsOnRehydrate(Merge(InitialPosts, PsStored(state)))

C21_RoundTripStep ==
    /\ \A liked \in LikedSets :
           PsRoundTrip([InitialPosts EXCEPT !.likedPosts = liked]).likedPosts = liked
    /\ psLast'.step = "reload"
       => /\ Members(ps'.likedPosts) = Members(ps.likedPosts)
          /\ Len(Spread(ps'.likedPosts)) = Cardinality(Members(ps.likedPosts))
    /\ ps'.likedPosts.type = "Set"
    /\ NewSet(Spread(psStorage'.likedPosts)) = ps'.likedPosts

\* C21: persisting and rehydrating any Set of post ids gives back a Set
\* with the same members; a page load gives likedPosts the members it had
\* before, each once; the array in localStorage always converts back to
\* the store's likedPosts; and likedPosts is a Set in every state, before
\* and after a page load.
C21_LikedPostsRoundTrip == [][C21_RoundTripStep]_vars

\* The page was loaded again while a post was liked: localStorage holds
\* the array and the store holds the Set.
C21_Witness ==
    /\ psLast.step = "reload"
    /\ psStorage.likedPosts = JsArray(<<"p1">>)
    /\ ps.likedPosts = JsSet(<<"p1">>)
    /\ ps.posts = <<>>

(***************************************************************************)
(* Claims about the middleware and the navigation.                         *)
(***************************************************************************)

\* An /auth/ page of the public list.
IsPublicAuthPage(pathname) ==
    /\ IsPublicRoute(pathname)
    /\ StartsWith(pathname, <<"/", "auth", "/">>)
    /\ ~IsStaticPath(pathname)

LogoutCompletes == authLast'.op = "logout" /\ authLast'.step = "done"

C23_LogoutStep ==
    LogoutCompletes
    => /\ auth' = [user |-> Null, token |-> Null, sessionId |-> Null,
                   isAuthenticated |-> FALSE, isLoading |-> FALSE, error |-> Null]
       /\ cookies' = [auth_token |-> Null, session_id |-> Null]
       /\ authStorage'.isAuthenticated = FALSE
       /\ authStorage'.user = Null

\* C23: when logout() completes, whatever the logout request came to (a
\* 2xx, an error response, a timeout, no response, or no request at all
\* for want of a session id), the store has user, token and sessionId
\* null, isAuthenticated and isLoading false and error null, and both
\* cookies are removed.
C23_Logout == [][C23_LogoutStep]_vars

\* A logout whose request got no response, made while logged in.
C23_Witness ==
    /\ authLast.op = "logout"
    /\ authLast.step = "done"
    /\ authLast.outcome.kind = "network"
    /\ ~auth.isAuthenticated
    /\ auth.user = Null
    /\ cookies = NoCookies

\* This step completes a call of checkAuthStatus() that passed the guard,
\* with no other action waiting for a response.
CheckAuthStatusCompletes ==
    /\ authLast'.op = "checkAuthStatus"
    /\ authLast'.step = "done"
    /\ calls' = EmptyBag

\* The call found a token cookie and its GET /me was answered 2xx with the
\* user.
CheckAuthStatusValidated == authLast'.outcome.kind = "ok"

C24_CheckAuthStatusStep ==
    CheckAuthStatusCompletes
    => /\ auth'.isAuthenticated = CheckAuthStatusValidated
       /\ ~CheckAuthStatusValidated => auth'.user = Null

\* C24: when a checkAuthStatus call that passed the loading guard
\* completes, isAuthenticated is true exactly if there was a token cookie
\* and the current-user request succeeded; otherwise (no token, or a token
\* that /me rejects) user is null and isAuthenticated is false, whatever
\* the store held before.
C24_CheckAuthStatusValidates == [][C24_CheckAuthStatusStep]_vars

\* This step completes an auth-store action and no service call of the
\* store is waiting for its response any more.
AuthActionSettles == authLast'.step = "done" /\ calls' = EmptyBag

C26_LoadingStep == AuthActionSettles => ~auth'.isLoading

\* C26: once the service calls of the auth-store actions have resolved,
\* whatever each resolved to (an error, data, or neither), isLoading is
\* false, so that ProtectedRoute leaves its loading fallback and a later
\* checkAuthStatus passes the guard.
C26_LoadingEnds == [][C26_LoadingStep]_vars

\* logout() has just completed: the requests still waiting were in flight
\* when it ran.
LoggedOutNow == authLast.op = "logout" /\ authLast.step = "done"

\* This step delivers the response of such a request to login,
\* getCurrentUser (called directly or by checkAuthStatus) or updateProfile.
StaleResponse ==
    /\ authLast'.step = "done"
    /\ authLast'.op \in {"login", "getCurrentUser", "updateProfile", "checkAuthStatus"}
    /\ calls' # calls

C28_StaleStep ==
    (LoggedOutNow /\ StaleResponse)
    => /\ ~auth'.isAuthenticated
       /\ cookies' = NoCookies

\* C28: the response of a login, getCurrentUser or updateProfile request
\* that was in flight when logout() completed does not set
\* isAuthenticated back to true and does not re-create the auth_token /
\* session_id cookies.
C28_LogoutIsFinal == [][C28_StaleStep]_vars

\* No searchPosts / loadMoreSearchResults call is waiting for its response.
SearchIdle ==
    \A c \in psCalls : c.op \notin {"searchPosts", "loadMoreSearchResults"}

\* C29: whenever no search request is in flight, every post in
\* searchResults was returned for the filters in lastSearchParams, also
\* after failed searches and after overlapping searchPosts /
\* loadMoreSearchResults calls, so that a following 'load more' appends a
\* page of the same query.
C29_SearchStateAgrees ==
    SearchIdle
    => \A i \in DOMAIN ps.searchResults :
           ps.searchResults[i].matches = ps.lastSearchParams.filter

\* The <<likesCount, commentsCount>> of the copies of a post in a list.
CountsIn(posts, postId) ==
    { <<posts[i].likesCount, posts[i].commentsCount>> :
          i \in { k \in DOMAIN posts : posts[k].id = postId } }

\* The counts of all copies of the post that the store holds.
CachedCounts(state, postId) ==
    CountsIn(state.posts, postId) \cup CountsIn(state.userPosts, postId)
        \cup CountsIn(state.searchResults, postId)
        \cup CountsIn(<<state.currentPost>>, postId)

CopiesAgree(state, postId) == Cardinality(CachedCounts(state, postId)) <= 1

\* This step is the continuation of a toggleLike, addComment or
\* deleteComment that succeeded.
CountChanged ==
    /\ psLast'.step = "done"
    /\ psLast'.call.op \in {"toggleLike", "addComment", "deleteComment"}
    /\ psLast'.ret = "true"

C30_CopiesStep ==
    (CountChanged /\ CopiesAgree(ps, psLast'.call.postId))
    => CopiesAgree(ps', psLast'.call.postId)

\* C30: after a successful toggleLike, addComment or deleteComment for
\* postId, the copies of that post in posts, currentPost, userPosts and
\* searchResults carry the same likesCount and commentsCount (checked
\* for copies that agreed before the call's response was applied).
C30_CopiesAgree == [][C30_CopiesStep]_vars

SpecGate == Init /\ [][GateRequest]_vars

\* C27: whatever the auth_token cookie and the store's isAuthenticated
\* are, the redirects of the middleware and of ProtectedRoute / withAuth
\* come to an end: again and again the browser rests on a page.
C27_NavigationSettles == []<>NavSettled

\* The browser follows redirects, loads documents and runs effects, and
\* every request of the store is answered; what the user does is left
\* open.
NavFairness ==
    /\ WF_vars(NavRedirect)
    /\ WF_vars(NavLoad)
    /\ WF_vars(NavMount)
    /\ WF_vars(NavGuard)
    /\ WF_vars(NavPush)
    /\ WF_vars(GetCurrentUserDone)
    /\ WF_vars(LoginDone)

SpecNavFair == Init /\ [][NextBrowse]_vars /\ NavFairness

SpecDb == Init /\ [][NextDb]_vars

SpecAuth == Init /\ [][NextAuth]_vars

SpecSvc == Init /\ [][NextSvc]_vars

SpecFetch == Init /\ [][NextFetch]_vars

SpecLikes == Init /\ [][NextLikes]_vars

SpecComments == Init /\ [][NextComments]_vars

SpecSearch == Init /\ [][NextSearch]_vars

SpecCache == Init /\ [][NextCache]_vars

====
